---- MODULE Spec2Model ----
(***************************************************************************)
(* Real-time session coordination layer of the video-call platform:        *)
(* socket authentication, the userSessions presence map, the durable       *)
(* session documents (status, participants), the chat message store, and   *)
(* the recording endpoints that drive the media service's egress jobs.     *)
(*                                                                         *)
(* Every asynchronous handler is a task that moves from one await to the   *)
(* next; a storage call takes effect in a step of its own, so handlers of  *)
(* different (or the same) connections interleave at their awaits exactly  *)
(* as they do on the Node.js event loop.                                   *)
(***************************************************************************)
EXTENDS Integers, Sequences, FiniteSets, TLC

(* ------------------------------ bounds --------------------------------- *)
\* client events (socket events and HTTP requests) accepted in one behaviour
MaxEvents == 2
\* chat documents a stored history may hold, and their latest timestamp
MaxMsgs == 3
MaxTs == 2

(* --------------------------- identifiers ------------------------------- *)
None == "none"
Users == {"e1", "e2", "k1"}
Educators == {"e1", "e2"}
SessionIds == {"s1", "s2"}
\* a well-formed session id for which no document exists
MissingId == "s0"
Conns == {"c1", "c2"}
TaskIds == {"t1", "t2"}
Statuses == {"scheduled", "active", "ended"}
SystemUser == "system"

\* role stored on the user document (users.model: 'educator' | 'child')
RoleOf(u) == IF u \in Educators THEN "educator" ELSE "child"

VARIABLES
  sessions,      \* session documents: id -> [educator_id, status, participants]
  conn,          \* socket objects: state, handshake token, userId, userRole, sessionId, rooms
  userSessions,  \* SocketHandler.userSessions: socket id -> presence entry
  chat,          \* chat message collection, in insertion order
  now,           \* wall clock read by new Date()
  tasks,         \* handler invocations suspended at an await
  egress,        \* the media service's egress jobs
  env,           \* what the environment may still do: requests, failures, clock ticks
  emitted,       \* events and HTTP responses sent by the last step
  last           \* the last step: operation, connection or caller, arguments

vars == <<sessions, conn, userSessions, chat, now, tasks, egress, env, emitted, last>>

(* ----------------------------- helpers --------------------------------- *)
SeqToSet(q) == {q[i] : i \in DOMAIN q}
Count(x, q) == Cardinality({i \in DOMAIN q : q[i] = x})
NoDup(q) == \A i, j \in DOMAIN q : q[i] = q[j] => i = j
RECURSIVE Without(_, _)
Without(q, x) ==
  IF q = <<>> THEN <<>>
  ELSE IF Head(q) = x THEN Without(Tail(q), x)
  ELSE <<Head(q)>> \o Without(Tail(q), x)

NoEntry == [userId |-> None, sessionId |-> None]
IdleTask == [kind |-> "idle", pc |-> "-", c |-> None, sid |-> None, uid |-> None,
             ok |-> TRUE, snap |-> <<>>, ts |-> 0, us |-> NoEntry]
NoStep == [op |-> "init", c |-> None, sid |-> None, uid |-> None, n |-> 0]
Step(op, c, sid, uid) == [op |-> op, c |-> c, sid |-> sid, uid |-> uid, n |-> 0]
StepN(op, c, sid, n) == [op |-> op, c |-> c, sid |-> sid, uid |-> None, n |-> n]
\* one emit: the addressee (a socket, a room or the HTTP caller), the event,
\* its session / user / list payload, and the sockets it is delivered to
Ev(to, ev, sid, uid, body, rcpt) ==
  [to |-> to, ev |-> ev, sid |-> sid, uid |-> uid, body |-> body, rcpt |-> rcpt]

AllIdle == \A t \in TaskIds : tasks[t].kind = "idle"
\* the slot a new handler invocation takes
FreeSlot == IF tasks["t1"].kind = "idle" THEN "t1" ELSE "t2"
HasFreeSlot == \E t \in TaskIds : tasks[t].kind = "idle"

\* sockets currently in a socket.io room
RoomMembers(r) == {c \in Conns : r \in conn[c].rooms}
ToSelfSilent(c, ev, sid, uid, body) == {}
\* socket.emit reaches the client while the socket is connected
ToSelf(c, ev, sid, uid, body) ==
  {Ev(c, ev, sid, uid, body, IF conn[c].st = "open" THEN {c} ELSE {})}
\* io.to(room).emit
ToRoom(room, ev, sid, uid) == {Ev(room, ev, sid, uid, <<>>, RoomMembers(room))}
\* socket.to(room).emit: the room without the emitting socket
ToOthers(c, room, ev, sid, uid) == {Ev(room, ev, sid, uid, <<>>, RoomMembers(room) \ {c})}
\* the handler in slot t has returned; a handler left in the second slot
\* moves up
Release(t) ==
  IF t = "t1" THEN [tasks EXCEPT !["t1"] = tasks["t2"], !["t2"] = IdleTask]
  ELSE [tasks EXCEPT !["t2"] = IdleTask]

(* ------------------- what the environment may do ----------------------- *)
\* Free mode: any request, storage failure or clock tick while the budget
\* lasts.  Script mode: the requests of the first stage in any order and
\* concurrently; a later stage starts once every handler of the stage before
\* has returned; flt storage failures may occur.  base keeps the session
\* documents as they were when the requests began.
FreeEnv(db) ==
  [mode |-> "free", left |-> MaxEvents, stages |-> <<>>, flt |-> 0, base |-> db]
ScriptEnv(stages, flt, db) ==
  [mode |-> "script", left |-> 0, stages |-> stages, flt |-> flt, base |-> db]
ScriptDone == env.mode = "script" /\ \A i \in DOMAIN env.stages : env.stages[i] = {}
Allowed(e) ==
  \/ env.mode = "free" /\ env.left > 0
  \/ env.mode = "script" /\ env.stages # <<>> /\ e \in Head(env.stages)
  \/ /\ env.mode = "script" /\ Len(env.stages) >= 2
     /\ Head(env.stages) = {} /\ AllIdle /\ e \in env.stages[2]
Consume(e) ==
  IF env.mode = "free" THEN [env EXCEPT !.left = @ - 1]
  ELSE IF e \in Head(env.stages)
       THEN [env EXCEPT !.stages = <<Head(@) \ {e}>> \o Tail(@)]
       ELSE [env EXCEPT !.stages = <<@[2] \ {e}>> \o Tail(Tail(@))]

\* the outcomes of a storage or media-service call under budget b, and the
\* budget after it
OutcomesIn(b) ==
  IF (b.mode = "free" /\ b.left > 0) \/ (b.mode = "script" /\ b.flt > 0)
  THEN {TRUE, FALSE} ELSE {TRUE}
Charged(b, ok) ==
  IF ok THEN b
  ELSE IF b.mode = "free" THEN [b EXCEPT !.left = @ - 1] ELSE [b EXCEPT !.flt = @ - 1]
Outcomes == OutcomesIn(env)

(* ------------------------ session documents ---------------------------- *)
\* createSession: status 'scheduled', participants = the invited children
NewSession(educator, invited) ==
  [educator_id |-> educator, status |-> "scheduled", participants |-> invited]

\* { $addToSet: { participants: participantId } }
AddToSetOverwrite(parts, id) == <<id>>
AddToSetPush(parts, id) == Append(parts, id)
AddToSet(parts, id) == IF id \in SeqToSet(parts) THEN parts ELSE Append(parts, id)

\* { $pull: { participants: participantId } }
Pull(parts, id) == Without(parts, id)

\* findSessionById: the document, or a throw when there is none
SessionExists(sid) == sid \in SessionIds

\* SessionService.addParticipant / removeParticipant: findByIdAndUpdate
\* changes the document when it exists and is a no-op (null) otherwise
AddParticipant(db, sid, uid) ==
  IF SessionExists(sid)
  THEN [db EXCEPT ![sid].participants = AddToSet(@, uid)]
  ELSE db
RemoveParticipant(db, sid, uid) ==
  IF SessionExists(sid)
  THEN [db EXCEPT ![sid].participants = Pull(@, uid)]
  ELSE db

(* -------------------------- authentication ----------------------------- *)
NoToken == [present |-> FALSE, valid |-> FALSE, id |-> None, role |-> None]
\* a token issued for user u, and one that fails jwt.verify (bad signature
\* or expired) while claiming to be u
GoodToken(u) == [present |-> TRUE, valid |-> TRUE, id |-> u, role |-> RoleOf(u)]
BadToken(u) == [present |-> TRUE, valid |-> FALSE, id |-> u, role |-> RoleOf(u)]
Tokens == {NoToken, BadToken("e1")} \cup {GoodToken(u) : u \in Users}

Rejected == [ok |-> FALSE, userId |-> None, userRole |-> None]
AuthenticateNoCheck(tok) == [ok |-> TRUE, userId |-> tok.id, userRole |-> tok.role]
\* authenticateSocket: next(Error) without a token or when jwt.verify throws,
\* else tag the socket with decoded.id / decoded.role and next()
AuthenticateSocket(tok) ==
  IF ~tok.present THEN Rejected
  ELSE IF ~tok.valid THEN Rejected
  ELSE [ok |-> TRUE, userId |-> tok.id, userRole |-> tok.role]

NewSocket == [st |-> "new", token |-> NoToken, userId |-> None, userRole |-> None,
              sessionId |-> None, rooms |-> {}]
\* the socket after a handshake with token tok: io.use(authenticateSocket),
\* then io.on('connection') registers the handlers and the socket is in the
\* room of its own id
Handshake(c, tok) ==
  LET a == AuthenticateSocket(tok) IN
  IF a.ok
  THEN [st |-> "open", token |-> tok, userId |-> a.userId, userRole |-> a.userRole,
        sessionId |-> None, rooms |-> {c}]
  ELSE [st |-> "rejected", token |-> tok, userId |-> None, userRole |-> None,
        sessionId |-> None, rooms |-> {}]

\* handleConnection registered the socket's handlers, and it has not closed
Registered(c) == conn[c].st = "open"

Connect(c, tok) ==
  /\ conn[c].st = "new"
  /\ conn' = [conn EXCEPT ![c] = Handshake(c, tok)]
  /\ emitted' = IF AuthenticateSocket(tok).ok THEN {}
                ELSE {Ev(c, "connect_error", None, None, <<>>, {c})}
  /\ last' = Step("connect", c, None, None)
  /\ UNCHANGED <<sessions, userSessions, chat, now, tasks, egress, env>>

(* ------------------------------ clock ---------------------------------- *)
\* time passes; only a clock value some document or pending insert carries
\* needs a successor
TickEvent == Step("tick", None, None, None)
Tick ==
  /\ Allowed(TickEvent)
  /\ env' = Consume(TickEvent)
  /\ \/ \E i \in DOMAIN chat : chat[i].timestamp = now
     \/ \E t \in TaskIds : tasks[t].pc \in {"msg", "insert"} /\ tasks[t].ts = now
  /\ now' = now + 1
  /\ emitted' = {}
  /\ last' = Step("tick", None, None, None)
  /\ UNCHANGED <<sessions, conn, userSessions, chat, tasks, egress>>

(* --------------------------- chat messages ----------------------------- *)
\* createChatMessage stamps the document when it is called; the insert
\* reaches the collection in a later step
ChatDoc(sid, uid, type, ts) == [sessionId |-> sid, userId |-> uid, type |-> type, timestamp |-> ts]
SystemDocAsText(sid, ts) == ChatDoc(sid, SystemUser, "text", ts)
SystemDoc(sid, ts) == ChatDoc(sid, SystemUser, "system", ts)

(* --------------------- join-session (socket event) --------------------- *)
JoinEvent(c, sid, uid) == Step("join-session", c, sid, uid)

\* handleJoinSession up to the return of findSessionById.  The lookup throws
\* for a missing document (or a failed query); the catch block answers
\* session-error and nothing else has happened.
JoinSession(c, sid, uid) ==
  /\ Registered(c)
  /\ Allowed(JoinEvent(c, sid, uid))
  /\ HasFreeSlot
  /\ \E ok \in OutcomesIn(Consume(JoinEvent(c, sid, uid))) :
       /\ env' = Charged(Consume(JoinEvent(c, sid, uid)), ok)
       /\ IF SessionExists(sid) /\ ok
          THEN /\ tasks' = [tasks EXCEPT ![FreeSlot] =
                    [IdleTask EXCEPT !.kind = "join", !.pc = "found", !.c = c,
                                     !.sid = sid, !.uid = uid]]
               /\ emitted' = {}
               /\ last' = Step("join_found", c, sid, uid)
          ELSE /\ tasks' = tasks
               /\ emitted' = ToSelf(c, "session-error", sid, uid, <<>>)
               /\ last' = Step("join_failed", c, sid, uid)
  /\ UNCHANGED <<sessions, conn, userSessions, chat, now, egress>>

\* socket.sessionId = sessionId; socket.join(sessionId) (a closed socket no
\* longer joins rooms); userSessions.set(socket.id, ...); addParticipant is
\* issued
JoinEnter(t) ==
  LET k == tasks[t] IN
  /\ k.kind = "join" /\ k.pc = "found"
  /\ conn' = [conn EXCEPT ![k.c].sessionId = k.sid,
                          ![k.c].rooms = IF conn[k.c].st = "open" THEN @ \cup {k.sid} ELSE @]
  /\ userSessions' = [userSessions EXCEPT ![k.c] = [userId |-> k.uid, sessionId |-> k.sid]]
  /\ tasks' = [tasks EXCEPT ![t].pc = "add"]
  /\ emitted' = {}
  /\ last' = Step("join_enter", k.c, k.sid, k.uid)
  /\ UNCHANGED <<sessions, chat, now, egress, env>>

\* the $addToSet reaches the database; a failure is caught by the handler,
\* which answers session-error
JoinAdd(t) ==
  LET k == tasks[t] IN
  /\ k.kind = "join" /\ k.pc = "add"
  /\ \E ok \in Outcomes :
       /\ env' = Charged(env, ok)
       /\ IF ok
          THEN /\ sessions' = AddParticipant(sessions, k.sid, k.uid)
               /\ tasks' = [tasks EXCEPT ![t].pc = "added"]
               /\ emitted' = {}
               /\ last' = Step("join_add", k.c, k.sid, k.uid)
          ELSE /\ sessions' = sessions
               /\ tasks' = Release(t)
               /\ emitted' = ToSelf(k.c, "session-error", k.sid, k.uid, <<>>)
               /\ last' = Step("join_failed", k.c, k.sid, k.uid)
  /\ UNCHANGED <<conn, userSessions, chat, now, egress>>

\* socket.to(sessionId).emit('participant-joined'); createChatMessage is
\* called and stamps the system message
JoinAnnounce(t) ==
  LET k == tasks[t] IN
  /\ k.kind = "join" /\ k.pc = "added"
  /\ emitted' = ToOthers(k.c, k.sid, "participant-joined", k.sid, k.uid)
  /\ tasks' = [tasks EXCEPT ![t].pc = "msg", ![t].ts = now]
  /\ last' = Step("join_announce", k.c, k.sid, k.uid)
  /\ UNCHANGED <<sessions, conn, userSessions, chat, now, egress, env>>

\* the insert of the system message reaches the collection, or fails
\* (inner catch: logged only)
JoinMsg(t) ==
  LET k == tasks[t] IN
  /\ k.kind = "join" /\ k.pc = "msg"
  /\ \E ok \in Outcomes :
       /\ env' = Charged(env, ok)
       /\ chat' = IF ok THEN Append(chat, SystemDoc(k.sid, k.ts)) ELSE chat
       /\ tasks' = [tasks EXCEPT ![t].pc = "msg_done", ![t].ok = ok]
  /\ emitted' = {}
  /\ last' = Step("join_msg", k.c, k.sid, k.uid)
  /\ UNCHANGED <<sessions, conn, userSessions, now, egress>>

\* io.to(sessionId).emit('chat-message', joinMessage) when the insert
\* succeeded; getSessionParticipants is issued
JoinMsgSent(t) ==
  LET k == tasks[t] IN
  /\ k.kind = "join" /\ k.pc = "msg_done"
  /\ emitted' = IF k.ok
                THEN ToRoom(k.sid, "chat-message", k.sid, SystemUser)
                ELSE {}
  /\ tasks' = [tasks EXCEPT ![t].pc = "parts"]
  /\ last' = Step("join_msg_sent", k.c, k.sid, k.uid)
  /\ UNCHANGED <<sessions, conn, userSessions, chat, now, egress, env>>

\* getSessionParticipants reads the document; a failure is caught and
\* answered with session-error
JoinParts(t) ==
  LET k == tasks[t] IN
  /\ k.kind = "join" /\ k.pc = "parts"
  /\ \E ok \in Outcomes :
       /\ env' = Charged(env, ok)
       /\ IF ok
          THEN /\ tasks' = [tasks EXCEPT ![t].pc = "parts_done",
                                         ![t].snap = sessions[k.sid].participants]
               /\ emitted' = {}
               /\ last' = Step("join_parts", k.c, k.sid, k.uid)
          ELSE /\ tasks' = Release(t)
               /\ emitted' = ToSelf(k.c, "session-error", k.sid, k.uid, <<>>)
               /\ last' = Step("join_failed", k.c, k.sid, k.uid)
  /\ UNCHANGED <<sessions, conn, userSessions, chat, now, egress>>

\* socket.emit('session-joined', { sessionId, participants })
JoinDone(t) ==
  LET k == tasks[t] IN
  /\ k.kind = "join" /\ k.pc = "parts_done"
  /\ emitted' = ToSelf(k.c, "session-joined", k.sid, k.uid, k.snap)
  /\ tasks' = Release(t)
  /\ last' = Step("join_done", k.c, k.sid, k.uid)
  /\ UNCHANGED <<sessions, conn, userSessions, chat, now, egress, env>>

JoinStep(t) ==
  \/ JoinEnter(t) \/ JoinAdd(t) \/ JoinAnnounce(t) \/ JoinMsg(t)
  \/ JoinMsgSent(t) \/ JoinParts(t) \/ JoinDone(t)

(* -------------------- leave-session (socket event) --------------------- *)
LeaveEvent(c, sid, uid) == Step("leave-session", c, sid, uid)

\* handleLeaveSession up to the call of removeParticipant: the presence
\* entry is read, the socket leaves the room the request names
LeaveSession(c, sid, uid) ==
  /\ Registered(c)
  /\ Allowed(LeaveEvent(c, sid, uid))
  /\ HasFreeSlot
  /\ env' = Consume(LeaveEvent(c, sid, uid))
  /\ conn' = [conn EXCEPT ![c].rooms = @ \ {sid}]
  /\ tasks' = [tasks EXCEPT ![FreeSlot] =
        [IdleTask EXCEPT !.kind = "leave", !.pc = "pull", !.c = c, !.sid = sid,
                         !.uid = uid, !.us = userSessions[c]]]
  /\ emitted' = {}
  /\ last' = Step("leave_start", c, sid, uid)
  /\ UNCHANGED <<sessions, userSessions, chat, now, egress>>

\* what both leave and disconnect do once removeParticipant has returned and
\* no system message is to be written, or once its insert has been tried:
\* the 'left' chat-message (if stored) and participant-left go to the room
\* without the socket
LeftEvents(c, room, uid, stored) ==
  ToOthers(c, room, "participant-left", room, uid)
  \cup (IF stored THEN ToOthers(c, room, "chat-message", room, SystemUser) ELSE {})

\* the $pull reaches the database; a failure ends the handler in its catch
\* block, which only logs
LeavePull(t) ==
  LET k == tasks[t] IN
  /\ k.kind = "leave" /\ k.pc = "pull"
  /\ \E ok \in Outcomes :
       /\ env' = Charged(env, ok)
       /\ IF ok
          THEN /\ sessions' = RemoveParticipant(sessions, k.sid, k.uid)
               /\ tasks' = [tasks EXCEPT ![t].pc = "pulled"]
               /\ last' = Step("leave_pull", k.c, k.sid, k.uid)
          ELSE /\ sessions' = sessions
               /\ tasks' = Release(t)
               /\ last' = Step("leave_failed", k.c, k.sid, k.uid)
  /\ emitted' = {}
  /\ UNCHANGED <<conn, userSessions, chat, now, egress>>

\* with a presence entry the 'left' system message is created; without one
\* the handler finishes at once
LeaveAnnounce(t) ==
  LET k == tasks[t] IN
  /\ k.kind = "leave" /\ k.pc = "pulled"
  /\ IF k.us # NoEntry
     THEN /\ tasks' = [tasks EXCEPT ![t].pc = "msg", ![t].ts = now]
          /\ emitted' = {}
          /\ last' = Step("leave_announce", k.c, k.sid, k.uid)
          /\ UNCHANGED <<conn, userSessions>>
     ELSE /\ tasks' = Release(t)
          /\ emitted' = LeftEvents(k.c, k.sid, k.uid, FALSE)
          /\ conn' = [conn EXCEPT ![k.c].sessionId = None]
          /\ userSessions' = [userSessions EXCEPT ![k.c] = NoEntry]
          /\ last' = Step("leave_done", k.c, k.sid, k.uid)
  /\ UNCHANGED <<sessions, chat, now, egress, env>>

LeaveMsg(t) ==
  LET k == tasks[t] IN
  /\ k.kind = "leave" /\ k.pc = "msg"
  /\ \E ok \in Outcomes :
       /\ env' = Charged(env, ok)
       /\ chat' = IF ok THEN Append(chat, SystemDoc(k.sid, k.ts)) ELSE chat
       /\ tasks' = [tasks EXCEPT ![t].pc = "msg_done", ![t].ok = ok]
  /\ emitted' = {}
  /\ last' = Step("leave_msg", k.c, k.sid, k.uid)
  /\ UNCHANGED <<sessions, conn, userSessions, now, egress>>

\* chat-message (if stored) and participant-left are emitted,
\* socket.sessionId = undefined, userSessions.delete(socket.id)
LeaveDone(t) ==
  LET k == tasks[t] IN
  /\ k.kind = "leave" /\ k.pc = "msg_done"
  /\ emitted' = LeftEvents(k.c, k.sid, k.uid, k.ok)
  /\ conn' = [conn EXCEPT ![k.c].sessionId = None]
  /\ userSessions' = [userSessions EXCEPT ![k.c] = NoEntry]
  /\ tasks' = Release(t)
  /\ last' = Step("leave_done", k.c, k.sid, k.uid)
  /\ UNCHANGED <<sessions, chat, now, egress, env>>

LeaveStep(t) == LeavePull(t) \/ LeaveAnnounce(t) \/ LeaveMsg(t) \/ LeaveDone(t)

(* ------------------------------ disconnect ----------------------------- *)
DisconnectEvent(c) == Step("disconnect", c, None, None)

\* the socket closes: socket.io takes it out of every room and fires
\* 'disconnect'.  handleDisconnect, with socket.sessionId and socket.userId
\* set, reads the presence entry and calls removeParticipant; otherwise it
\* only deletes the presence entry.
Disconnect(c) ==
  /\ Registered(c)
  /\ Allowed(DisconnectEvent(c))
  /\ HasFreeSlot
  /\ env' = Consume(DisconnectEvent(c))
  /\ conn' = [conn EXCEPT ![c].st = "closed", ![c].rooms = {}]
  /\ IF conn[c].sessionId # None /\ conn[c].userId # None
     THEN /\ tasks' = [tasks EXCEPT ![FreeSlot] =
                [IdleTask EXCEPT !.kind = "disconnect", !.pc = "pull", !.c = c,
                                 !.sid = conn[c].sessionId, !.uid = conn[c].userId,
                                 !.us = userSessions[c]]]
          /\ userSessions' = userSessions
     ELSE /\ tasks' = tasks
          /\ userSessions' = [userSessions EXCEPT ![c] = NoEntry]
  /\ emitted' = {}
  /\ last' = Step("disconnect_start", c, conn[c].sessionId, conn[c].userId)
  /\ UNCHANGED <<sessions, chat, now, egress>>

DisconnectPull(t) ==
  LET k == tasks[t] IN
  /\ k.kind = "disconnect" /\ k.pc = "pull"
  /\ \E ok \in Outcomes :
       /\ env' = Charged(env, ok)
       /\ IF ok
          THEN /\ sessions' = RemoveParticipant(sessions, k.sid, k.uid)
               /\ tasks' = [tasks EXCEPT ![t].pc = "pulled"]
               /\ last' = Step("disconnect_pull", k.c, k.sid, k.uid)
          ELSE /\ sessions' = sessions
               /\ tasks' = Release(t)
               /\ last' = Step("disconnect_failed", k.c, k.sid, k.uid)
  /\ emitted' = {}
  /\ UNCHANGED <<conn, userSessions, chat, now, egress>>

\* the message is created under the socket's session tag as it is now
DisconnectAnnounce(t) ==
  LET k == tasks[t] IN
  /\ k.kind = "disconnect" /\ k.pc = "pulled"
  /\ IF k.us # NoEntry
     THEN /\ tasks' = [tasks EXCEPT ![t].pc = "msg", ![t].ts = now,
                                    ![t].sid = conn[k.c].sessionId]
          /\ emitted' = {}
          /\ last' = Step("disconnect_announce", k.c, conn[k.c].sessionId, k.uid)
          /\ UNCHANGED userSessions
     ELSE /\ tasks' = Release(t)
          /\ emitted' = LeftEvents(k.c, conn[k.c].sessionId, conn[k.c].userId, FALSE)
          /\ userSessions' = [userSessions EXCEPT ![k.c] = NoEntry]
          /\ last' = Step("disconnect_done", k.c, conn[k.c].sessionId, k.uid)
  /\ UNCHANGED <<sessions, conn, chat, now, egress, env>>

\* the schema requires sessionId: without a session tag the insert is refused
DisconnectMsg(t) ==
  LET k == tasks[t] IN
  /\ k.kind = "disconnect" /\ k.pc = "msg"
  /\ \E ok \in Outcomes :
       /\ env' = Charged(env, ok)
       /\ chat' = IF ok /\ k.sid # None THEN Append(chat, SystemDoc(k.sid, k.ts)) ELSE chat
       /\ tasks' = [tasks EXCEPT ![t].pc = "msg_done", ![t].ok = (ok /\ k.sid # None)]
  /\ emitted' = {}
  /\ last' = Step("disconnect_msg", k.c, k.sid, k.uid)
  /\ UNCHANGED <<sessions, conn, userSessions, now, egress>>

DisconnectDone(t) ==
  LET k == tasks[t] IN
  /\ k.kind = "disconnect" /\ k.pc = "msg_done"
  /\ emitted' = LeftEvents(k.c, conn[k.c].sessionId, conn[k.c].userId, k.ok)
  /\ userSessions' = [userSessions EXCEPT ![k.c] = NoEntry]
  /\ tasks' = Release(t)
  /\ last' = Step("disconnect_done", k.c, conn[k.c].sessionId, k.uid)
  /\ UNCHANGED <<sessions, conn, chat, now, egress, env>>

DisconnectStep(t) ==
  \/ DisconnectPull(t) \/ DisconnectAnnounce(t) \/ DisconnectMsg(t) \/ DisconnectDone(t)

(* ------------------------- HTTP: session routes ------------------------ *)
\* AuthMiddleware put the caller's user id and role on the request
Http == "http"
Reply(code, sid, what) == {Ev(Http, code, sid, what, <<>>, {})}

\* the transition rule of SessionService.updateSessionStatus:
\* findByIdAndUpdate(sessionId, { status }) stores whatever is asked
NextStatusAdvance(cur, req) == IF cur = "scheduled" THEN "active" ELSE "ended"
NextStatus(cur, req) == req

\* who may update: role educator and owner of the session
MayUpdateAnyEducator(role, owner, u) == role = "educator"
MayUpdate(role, owner, u) == role = "educator" /\ owner = u

StatusEvent(u, sid, st) == Step("update-status", u, sid, st)

\* SessionsController.updateSessionStatus: lookup (409 when missing), the
\* owner check (403), then the update
UpdateSessionStatus(u, sid, st) ==
  /\ Allowed(StatusEvent(u, sid, st))
  /\ IF ~SessionExists(sid)
     THEN /\ emitted' = Reply("error", sid, "SessionNotFound")
          /\ last' = Step("status_failed", u, sid, st)
          /\ UNCHANGED sessions /\ env' = Consume(StatusEvent(u, sid, st))
     ELSE IF ~MayUpdate(RoleOf(u), sessions[sid].educator_id, u)
     THEN /\ emitted' = Reply("403", sid, "NotAuthorized")
          /\ last' = Step("status_denied", u, sid, st)
          /\ UNCHANGED sessions /\ env' = Consume(StatusEvent(u, sid, st))
     ELSE \E ok \in OutcomesIn(Consume(StatusEvent(u, sid, st))) :
            /\ env' = Charged(Consume(StatusEvent(u, sid, st)), ok)
            /\ IF ok
               THEN /\ sessions' = [sessions EXCEPT ![sid].status = NextStatus(@, st)]
                    /\ emitted' = Reply("200", sid, st)
                    /\ last' = Step("status_updated", u, sid, st)
               ELSE /\ sessions' = sessions
                    /\ emitted' = Reply("error", sid, "ExternalServiceError")
                    /\ last' = Step("status_failed", u, sid, st)
  /\ UNCHANGED <<conn, userSessions, chat, now, tasks, egress>>

\* the check joinSession makes on the document it found
RefusesEnded(status) == status = "ended"

JoinCodeEvent(u, sid) == Step("join-by-code", u, sid, u)

\* SessionService.joinSession up to its update: the session is found by its
\* code (one code per session), an ended session is refused, and a caller
\* found in the participant list gets the document back unchanged.  The list
\* is populated, so includes(participantId) may miss a member; the update
\* that follows is then an $addToSet of a member.
JoinByCode(u, sid) ==
  /\ Allowed(JoinCodeEvent(u, sid))
  /\ HasFreeSlot
  /\ env' = Consume(JoinCodeEvent(u, sid))
  /\ IF ~SessionExists(sid)
     THEN /\ emitted' = Reply("error", sid, "SessionNotFound")
          /\ last' = Step("joincode_failed", u, sid, u)
          /\ tasks' = tasks
     ELSE IF RefusesEnded(sessions[sid].status)
     THEN /\ emitted' = Reply("error", sid, "SessionEnded")
          /\ last' = Step("joincode_ended", u, sid, u)
          /\ tasks' = tasks
     ELSE \E hit \in {TRUE, FALSE} :
            IF hit /\ u \in SeqToSet(sessions[sid].participants)
            THEN /\ emitted' = Reply("200", sid, u)
                 /\ last' = Step("joincode_member", u, sid, u)
                 /\ tasks' = tasks
            ELSE /\ emitted' = {}
                 /\ last' = Step("joincode_found", u, sid, u)
                 /\ tasks' = [tasks EXCEPT ![FreeSlot] =
                       [IdleTask EXCEPT !.kind = "joincode", !.pc = "update", !.c = u,
                                        !.sid = sid, !.uid = u]]
  /\ UNCHANGED <<sessions, conn, userSessions, chat, now, egress>>

\* findByIdAndUpdate(..., { $addToSet: { participants } }, { new: true })
JoinByCodeUpdate(t) ==
  LET k == tasks[t] IN
  /\ k.kind = "joincode" /\ k.pc = "update"
  /\ \E ok \in Outcomes :
       /\ env' = Charged(env, ok)
       /\ IF ok
          THEN /\ sessions' = AddParticipant(sessions, k.sid, k.uid)
               /\ emitted' = Reply("200", k.sid, k.uid)
               /\ last' = Step("joincode_done", k.c, k.sid, k.uid)
          ELSE /\ sessions' = sessions
               /\ emitted' = Reply("error", k.sid, "ExternalServiceError")
               /\ last' = Step("joincode_failed", k.c, k.sid, k.uid)
  /\ tasks' = Release(t)
  /\ UNCHANGED <<conn, userSessions, chat, now, egress>>

(* ------------------------ HTTP: recording routes ----------------------- *)
\* the check LiveKitController.startRecording / stopRecording make on the
\* caller: the role, whatever session the request names
MayRecordAnyone(role, owner, u) == TRUE
MayRecord(role, owner, u) == role = "educator"

OwnerOf(sid) == IF SessionExists(sid) THEN sessions[sid].educator_id ELSE None

StartEvent(u, sid) == Step("start-recording", u, sid, None)

\* the errors startRoomCompositeEgress may answer with: a failure of the
\* media service, or, when a job for the room is running, that the job
\* already exists
AlreadyExists == "already exists"
StartErrors(jobs, room) ==
  {"ExternalServiceError"}
    \cup (IF \E j \in DOMAIN jobs : jobs[j].room = room /\ jobs[j].active
          THEN {AlreadyExists} ELSE {})

\* startRecording: 403 for a caller the check refuses; else
\* startRoomCompositeEgress(roomName = sessionId) gives a new egress id, or
\* its error, whatever its message, is logged, rethrown by the service and
\* goes to the caller through next(error)
StartRecording(u, sid) ==
  /\ Allowed(StartEvent(u, sid))
  /\ IF ~MayRecord(RoleOf(u), OwnerOf(sid), u)
     THEN /\ emitted' = Reply("403", sid, "NotAuthorized")
          /\ last' = Step("start_denied", u, sid, None)
          /\ UNCHANGED egress /\ env' = Consume(StartEvent(u, sid))
     ELSE \E ok \in OutcomesIn(Consume(StartEvent(u, sid))) :
            /\ env' = Charged(Consume(StartEvent(u, sid)), ok)
            /\ IF ok
               THEN /\ egress' = Append(egress, [room |-> sid, active |-> TRUE])
                    /\ emitted' = Reply("200", sid, "job")
                    /\ last' = Step("start_done", u, sid, None)
               ELSE \E msg \in StartErrors(egress, sid) :
                      /\ egress' = egress
                      /\ emitted' = Reply("error", sid, msg)
                      /\ last' = Step("start_failed", u, sid, msg)
  /\ UNCHANGED <<sessions, conn, userSessions, chat, now, tasks>>

\* the media service's answer to stopEgress(egressId): an id it never issued
\* is not found, a job that is no longer active cannot be stopped
StopEgressAnyId(jobs, j) == "ok"
StopEgress(jobs, j) ==
  IF j \notin DOMAIN jobs THEN "JobNotFound"
  ELSE IF ~jobs[j].active THEN "ExternalServiceError"
  ELSE "ok"

StopEvent(u, j) == StepN("stop-recording", u, None, j)

\* stopRecording: 403 for a caller the check refuses; else stopEgress, whose
\* error goes to the caller through next(error); a media service that cannot
\* be reached is an error of its own
StopRecording(u, j) ==
  /\ Allowed(StopEvent(u, j))
  /\ IF ~MayRecord(RoleOf(u), None, u)
     THEN /\ emitted' = Reply("403", None, "NotAuthorized")
          /\ last' = StepN("stop_denied", u, None, j)
          /\ UNCHANGED egress /\ env' = Consume(StopEvent(u, j))
     ELSE \E ok \in OutcomesIn(Consume(StopEvent(u, j))) :
            /\ env' = Charged(Consume(StopEvent(u, j)), ok)
            /\ IF ~ok
               THEN /\ egress' = egress
                    /\ emitted' = Reply("error", None, "ExternalServiceError")
                    /\ last' = StepN("stop_unreachable", u, None, j)
               ELSE IF StopEgress(egress, j) = "ok"
               THEN /\ egress' = IF j \in DOMAIN egress
                                 THEN [egress EXCEPT ![j].active = FALSE] ELSE egress
                    /\ emitted' = Reply("200", None, "stopped")
                    /\ last' = StepN("stop_done", u, None, j)
               ELSE /\ egress' = egress
                    /\ emitted' = Reply("error", None, StopEgress(egress, j))
                    /\ last' = StepN("stop_failed", u, None, j)
  /\ UNCHANGED <<sessions, conn, userSessions, chat, now, tasks>>

(* --------------------------- chat history ------------------------------ *)
\* default of the limit query parameter (parseInt(...) || 50)
DefaultLimit == 50
EffectiveLimit(q) == IF q = 0 THEN DefaultLimit ELSE q

\* find({ sessionId })
OfSession(store, sid) == SelectSeq(store, LAMBDA m : m.sessionId = sid)

\* all orders sort({ timestamp: -1 }) may give: documents with equal
\* timestamps come in any order
Perms(q) ==
  {p \in [DOMAIN q -> DOMAIN q] : \A i, j \in DOMAIN q : p[i] = p[j] => i = j}
SortedAscending(q) ==
  {[i \in DOMAIN q |-> q[p[i]]] : p \in
     {p \in Perms(q) : \A i, j \in DOMAIN q : i < j => q[p[i]].timestamp <= q[p[j]].timestamp}}
SortedDescending(q) ==
  {[i \in DOMAIN q |-> q[p[i]]] : p \in
     {p \in Perms(q) : \A i, j \in DOMAIN q : i < j => q[p[i]].timestamp >= q[p[j]].timestamp}}

\* limit(n)
Limit(q, n) == IF Len(q) <= n THEN q ELSE SubSeq(q, 1, n)
NoReverse(q) == q
\* reverse()
Reverse(q) == [i \in DOMAIN q |-> q[Len(q) + 1 - i]]

\* ChatMessageService.getRecentChatMessages: the replies it can give
GetRecentChatMessages(store, sid, n) ==
  {Reverse(Limit(d, n)) : d \in SortedDescending(OfSession(store, sid))}

HistoryEvent(sid, q) == StepN("history-request", Http, sid, q)

\* ChatMessageController.getChatMessagesBySession
GetChatMessages(sid, q) ==
  /\ Allowed(HistoryEvent(sid, q))
  /\ env' = Consume(HistoryEvent(sid, q))
  /\ \E r \in GetRecentChatMessages(chat, sid, EffectiveLimit(q)) :
       emitted' = {Ev(Http, "200", sid, "history", r, {})}
  /\ last' = StepN("history", Http, sid, q)
  /\ UNCHANGED <<sessions, conn, userSessions, chat, now, tasks, egress>>

(* ----------------------- initial state and steps ----------------------- *)
\* the sessions the educators created: s1 by e1, possibly with child k1
\* invited, s2 by e2
InitSessions ==
  {[s \in SessionIds |->
      IF s = "s1" THEN NewSession("e1", inv) ELSE NewSession("e2", <<>>)]
   : inv \in {<<>>, <<"k1">>}}

InitRest ==
  /\ conn = [c \in Conns |-> NewSocket]
  /\ userSessions = [c \in Conns |-> NoEntry]
  /\ chat = <<>>
  /\ now = 0
  /\ tasks = [t \in TaskIds |-> IdleTask]
  /\ egress = <<>>
  /\ emitted = {}
  /\ last = NoStep

Init ==
  /\ sessions \in InitSessions
  /\ env = FreeEnv(sessions)
  /\ InitRest

RequestIds == SessionIds \cup {MissingId}

HandlerSteps ==
  \E t \in TaskIds : JoinStep(t) \/ LeaveStep(t) \/ DisconnectStep(t) \/ JoinByCodeUpdate(t)

\* One client connection, whose requests name the identity it authenticated
\* with, and the session routes called by any user.
Next ==
  \/ \E tok \in Tokens : Connect("c1", tok)
  \/ \E sid \in RequestIds : JoinSession("c1", sid, conn["c1"].userId)
  \/ \E sid \in RequestIds : LeaveSession("c1", sid, conn["c1"].userId)
  \/ Disconnect("c1")
  \/ HandlerSteps
  \/ \E u \in Users, sid \in RequestIds, st \in Statuses : UpdateSessionStatus(u, sid, st)
  \/ \E u \in Users, sid \in RequestIds : JoinByCode(u, sid)
  \/ Tick

Spec == Init /\ [][Next]_vars

(* ======================= properties under Spec ========================= *)
SocketKinds == {"join", "leave", "disconnect"}
JoinLookupOps == {"join_found", "join_failed"}

\* C3: once a session's status is ended, a status-update request to another
\* status is answered with InvalidTransition, and no step changes the status
\* of an ended session.
C3_EndedIsFinal ==
  [][\A s \in SessionIds :
       sessions[s].status = "ended" =>
         /\ sessions'[s].status = "ended"
         /\ (last'.op = "status_updated" /\ last'.sid = s /\ last'.uid # "ended"
               => emitted' = Reply("error", s, "InvalidTransition"))]_vars

\* C8: a join of a session whose status is ended is refused: neither the
\* socket handler nor the join-by-code route gets past its lookup of an ended
\* session, so nothing is entered, added or joined.
C8_EndedRefusesJoin ==
  last.op \in {"join_found", "joincode_found", "joincode_member"}
    => sessions[last.sid].status # "ended"

C10_OnlyVerifiedSockets ==
  /\ \A c \in Conns :
       /\ conn[c].st \in {"open", "closed"}
            => /\ conn[c].token.present /\ conn[c].token.valid
               /\ conn[c].userId = conn[c].token.id
               /\ conn[c].userRole = conn[c].token.role
       /\ conn[c].st \in {"new", "rejected"}
            => /\ userSessions[c] = NoEntry
               /\ conn[c].rooms = {} /\ conn[c].sessionId = None /\ conn[c].userId = None
  /\ \A t \in TaskIds :
       tasks[t].kind \in SocketKinds => conn[tasks[t].c].st \in {"open", "closed"}
  /\ (last.c \in Conns /\ last.op # "connect") => conn[last.c].st \in {"open", "closed"}

\* a socket whose token failed verification was turned away
C10_Witness ==
  /\ conn["c1"].st = "rejected" /\ conn["c1"].token.present
  /\ env.left < MaxEvents

(* ====================== the recording endpoints ======================== *)
\* egress ids a stop request may name; the media service issues them in
\* order, so an id above the number of jobs was never issued
JobIds == 1 .. MaxEvents

NextRecording ==
  \/ \E u \in Users, sid \in RequestIds : StartRecording(u, sid)
  \/ \E u \in Users, j \in JobIds : StopRecording(u, j)
  \/ \E u \in Users, sid \in RequestIds, st \in Statuses : UpdateSessionStatus(u, sid, st)

SpecRecording == Init /\ [][NextRecording]_vars

StartOps == {"start_done", "start_failed", "start_denied"}
StopOps == {"stop_done", "stop_failed", "stop_denied", "stop_unreachable"}

C7_UnknownJobStop ==
  [][(last'.op \in StopOps /\ last'.n \notin DOMAIN egress)
       => /\ UNCHANGED <<sessions, conn, userSessions, chat, now, tasks, egress>>
          /\ last'.op \in {"stop_failed", "stop_denied", "stop_unreachable"}
          /\ RoleOf(last'.c) = "educator" /\ last'.op # "stop_unreachable"
               => /\ last'.op = "stop_failed"
                  /\ emitted' = Reply("error", None, "JobNotFound")
          /\ RoleOf(last'.c) # "educator"
               => /\ last'.op = "stop_denied"
                  /\ emitted' = Reply("403", None, "NotAuthorized")]_vars

\* with one job running, an educator asked to stop a job that was never
\* issued and got JobNotFound
C7_Witness ==
  /\ last.op = "stop_failed" /\ last.n \notin DOMAIN egress
  /\ \E j \in DOMAIN egress : egress[j].active
  /\ emitted = Reply("error", None, "JobNotFound")

(* ========================== chat history =============================== *)
\* the stored histories a request may meet: any documents of the sessions,
\* inserted in any order of their timestamps
HistoryDocs == {ChatDoc(sid, "k1", "text", ts) : sid \in SessionIds, ts \in 0 .. MaxTs}
Stores == UNION {[1 .. n -> HistoryDocs] : n \in 0 .. MaxMsgs}

InitHistory ==
  /\ sessions = [s \in SessionIds |-> NewSession(IF s = "s1" THEN "e1" ELSE "e2", <<>>)]
  /\ env = FreeEnv(sessions)
  /\ chat \in Stores
  /\ now = MaxTs
  /\ conn = [c \in Conns |-> NewSocket]
  /\ userSessions = [c \in Conns |-> NoEntry]
  /\ tasks = [t \in TaskIds |-> IdleTask]
  /\ egress = <<>>
  /\ emitted = {}
  /\ last = NoStep

\* the limit query parameter: absent (0) or a positive number
NextHistory == \E sid \in SessionIds, q \in 0 .. MaxMsgs : GetChatMessages(sid, q)

SpecHistory == InitHistory /\ [][NextHistory]_vars

\* C4: the reply to a history request for session S with limit n >= 1 holds
\* at most n messages, each a stored message of S, in ascending
\* (non-decreasing) timestamp order.
C4_HistoryBounded ==
  last.op = "history" =>
    /\ Cardinality(emitted) = 1
    /\ \A e \in emitted :
         /\ last.n >= 1 => Len(e.body) <= last.n
         /\ \A i \in DOMAIN e.body :
              /\ e.body[i].sessionId = last.sid
              /\ \E k \in DOMAIN chat : chat[k] = e.body[i]
         /\ \A i, j \in DOMAIN e.body :
              i < j => e.body[i].timestamp <= e.body[j].timestamp

\* three messages of the session were stored newest first, two were asked
\* for, and the reply holds two in ascending order
C4_Witness ==
  /\ last.op = "history" /\ last.n = 2
  /\ Len(OfSession(chat, last.sid)) = 3
  /\ OfSession(chat, last.sid)[1].timestamp > OfSession(chat, last.sid)[2].timestamp
  /\ \E e \in emitted :
       Len(e.body) = 2 /\ e.body[1].timestamp < e.body[2].timestamp

\* C17: the reply to a history request for session S with limit n >= 1
\* holds exactly min(n, |M|) of the stored messages M of S, and they are the
\* most recent ones: no stored message left out of the reply has a later
\* timestamp than a message in the reply.
C17_MostRecent ==
  (last.op = "history" /\ last.n >= 1) =>
    LET M == OfSession(chat, last.sid) IN
    \A e \in emitted :
      /\ Len(e.body) = (IF last.n <= Len(M) THEN last.n ELSE Len(M))
      /\ \A d \in HistoryDocs :
           /\ Count(d, e.body) <= Count(d, M)
           /\ Count(d, e.body) < Count(d, M)
                => \A i \in DOMAIN e.body : d.timestamp <= e.body[i].timestamp

\* three messages of distinct timestamps were stored oldest first, two were
\* asked for, and the reply leaves out the oldest
C17_Witness ==
  /\ last.op = "history" /\ last.n = 2
  /\ Len(OfSession(chat, last.sid)) = 3
  /\ OfSession(chat, last.sid)[1].timestamp < OfSession(chat, last.sid)[2].timestamp
  /\ OfSession(chat, last.sid)[2].timestamp < OfSession(chat, last.sid)[3].timestamp
  /\ \E e \in emitted :
       /\ Len(e.body) = 2
       /\ \A i \in DOMAIN e.body : e.body[i] # OfSession(chat, last.sid)[1]

(* ===================== scripted request sequences ====================== *)
\* the state in which sockets are open for the given users (None: no socket)
\* and the environment sends the given requests
InitScript(u1, u2, stages) ==
  /\ sessions \in InitSessions
  /\ env = ScriptEnv(stages, 0, sessions)
  /\ conn = [c \in Conns |->
               IF c = "c1" THEN Handshake(c, GoodToken(u1))
               ELSE IF u2 # None THEN Handshake(c, GoodToken(u2)) ELSE NewSocket]
  /\ userSessions = [c \in Conns |-> NoEntry]
  /\ chat = <<>>
  /\ now = 0
  /\ tasks = [t \in TaskIds |-> IdleTask]
  /\ egress = <<>>
  /\ emitted = {}
  /\ last = NoStep

(* -------- one identity joins a session and then leaves it -------------- *)
InitJoinLeave ==
  \E u \in Users, sid \in SessionIds :
    InitScript(u, None, <<{JoinEvent("c1", sid, u)}, {LeaveEvent("c1", sid, u)}>>)

NextJoinLeave ==
  \/ \E c \in Conns, sid \in SessionIds, u \in Users : JoinSession(c, sid, u)
  \/ \E c \in Conns, sid \in SessionIds, u \in Users : LeaveSession(c, sid, u)
  \/ \E t \in TaskIds : JoinStep(t) \/ LeaveStep(t)

SpecJoinLeave == InitJoinLeave /\ [][NextJoinLeave]_vars

\* C1: when an identity has joined a session and then left it, and both
\* handlers have returned, every session's participant set is what it was
\* before the join, whether or not the identity was a member beforehand.
C1_JoinLeaveRestores ==
  (ScriptDone /\ AllIdle /\ last.op = "leave_done")
    => \A s \in SessionIds :
         SeqToSet(sessions[s].participants) = SeqToSet(env.base[s].participants)

(* -------------- one identity joins the same session twice -------------- *)
\* the first join over the socket or by code, the second after the first has
\* returned: over the same socket, over a second socket of the same user, or
\* by code
InitRejoin ==
  \E u \in Users, sid \in SessionIds :
    \E first \in {JoinEvent("c1", sid, u), JoinCodeEvent(u, sid)},
       second \in {JoinEvent("c1", sid, u), JoinEvent("c2", sid, u), JoinCodeEvent(u, sid)} :
      InitScript(u, u, <<{first}, {second}>>)

NextRejoin ==
  \/ \E c \in Conns, sid \in SessionIds, u \in Users : JoinSession(c, sid, u)
  \/ \E u \in Users, sid \in SessionIds : JoinByCode(u, sid)
  \/ \E t \in TaskIds : JoinStep(t) \/ JoinByCodeUpdate(t)

SpecRejoin == InitRejoin /\ [][NextRejoin]_vars

JoinedOps == {"join_done", "joincode_done", "joincode_member"}

\* C2: when an identity joins a session twice in a row, over the same or
\* over two connections, neither join fails, both end in a success reply,
\* and from the moment the first add has been applied the participant list
\* holds the identity exactly once; no list ever holds a duplicate.
C2_RejoinOnce ==
  /\ \A s \in SessionIds : NoDup(sessions[s].participants)
  /\ last.op \notin {"join_failed", "joincode_failed", "joincode_ended"}
  /\ last.op \in JoinedOps \cup {"join_add"}
       => Count(last.uid, sessions[last.sid].participants) = 1
  /\ last.op = "join_done"
       => \A e \in emitted :
            e.ev = "session-joined" /\ e.rcpt = {last.c} /\ Count(last.uid, e.body) = 1
  /\ (ScriptDone /\ AllIdle) => last.op \in JoinedOps

\* the second join came over a second socket while the first socket's
\* presence entry for the same session was in place, and it succeeded
C2_Witness ==
  /\ ScriptDone /\ AllIdle
  /\ last.op = "join_done" /\ last.c = "c2"
  /\ userSessions["c1"] = [userId |-> last.uid, sessionId |-> last.sid]
  /\ userSessions["c2"] = [userId |-> last.uid, sessionId |-> last.sid]
  /\ Count(last.uid, sessions[last.sid].participants) = 1

(* ------------ two identities join one session concurrently -------------- *)
InitRace ==
  \E u1 \in Users, u2 \in Users, sid \in SessionIds :
    /\ u1 # u2
    /\ InitScript(u1, u2, <<{JoinEvent("c1", sid, u1), JoinEvent("c2", sid, u2)}>>)

NextRace ==
  \/ \E c \in Conns, sid \in SessionIds, u \in Users : JoinSession(c, sid, u)
  \/ \E t \in TaskIds : JoinStep(t)

SpecRace == InitRace /\ [][NextRace]_vars

\* C5: when two connections with distinct identities have joined the same
\* session concurrently and both handlers have returned, the session's
\* participant set is the earlier set plus exactly those two identities,
\* under every interleaving; no participant list ever holds a duplicate, and
\* the other session's list is untouched.
C5_ConcurrentJoins ==
  /\ \A s \in SessionIds : NoDup(sessions[s].participants)
  /\ (ScriptDone /\ AllIdle)
       => \A s \in SessionIds :
            SeqToSet(sessions[s].participants) =
              SeqToSet(env.base[s].participants)
                \cup (IF s = last.sid THEN {conn["c1"].userId, conn["c2"].userId} ELSE {})

\* both joins ran interleaved on an empty session; the second socket's add
\* was applied first and the list ends with both identities
C5_Witness ==
  /\ ScriptDone /\ AllIdle
  /\ env.base[last.sid].participants = <<>>
  /\ sessions[last.sid].participants = <<conn["c2"].userId, conn["c1"].userId>>
  /\ last.c = "c2"

(* ------- one identity on two sockets; one of them goes away ------------ *)
\* both sockets of the user join the session; when both joins have returned
\* the second socket leaves or disconnects
InitTwoDevices ==
  \E u \in Users, sid \in SessionIds :
    \E away \in {LeaveEvent("c2", sid, u), DisconnectEvent("c2")} :
      InitScript(u, u, <<{JoinEvent("c1", sid, u), JoinEvent("c2", sid, u)}, {away}>>)

NextTwoDevices ==
  \/ \E c \in Conns, sid \in SessionIds, u \in Users : JoinSession(c, sid, u)
  \/ \E c \in Conns, sid \in SessionIds, u \in Users : LeaveSession(c, sid, u)
  \/ \E c \in Conns : Disconnect(c)
  \/ \E t \in TaskIds : JoinStep(t) \/ LeaveStep(t) \/ DisconnectStep(t)

SpecTwoDevices == InitTwoDevices /\ [][NextTwoDevices]_vars

\* C11: once every handler has returned, each connection that still has a
\* presence entry (I, S) after its successful join finds I in the
\* participant list of S, whatever other connections, those of the same
\* identity included, have done since.
C11_NoPhantomPresence ==
  (ScriptDone /\ AllIdle)
    => \A c \in Conns :
         userSessions[c] # NoEntry
           => userSessions[c].userId
                \in SeqToSet(sessions[userSessions[c].sessionId].participants)

(* ================= presence entries and live connections =============== *)
\* C12: once every handler has returned, the presence map holds an entry
\* only for a connection that is live and joined, under the session it
\* joined; a connection that has closed or left has none.  (The map is keyed
\* by socket id, so a connection never has two entries.)
C12_PresenceOnlyLive ==
  AllIdle
    => \A c \in Conns :
         userSessions[c] # NoEntry
           => /\ conn[c].st = "open"
              /\ conn[c].sessionId = userSessions[c].sessionId

LeaveOps == {"leave_pull", "leave_failed", "leave_announce", "leave_msg", "leave_done"}

\* C13: the handler of a leave-session that found no presence entry for its
\* socket changes no participant list and no presence entry and sends no
\* participant-left event and no system message, whatever session and
\* identity the request names.
C13_LeaveWithoutEntry ==
  [][\A t \in TaskIds :
       (/\ tasks[t].kind = "leave" /\ tasks[t].us = NoEntry
        /\ last'.op \in LeaveOps /\ last'.c = tasks[t].c /\ last'.sid = tasks[t].sid)
         => /\ sessions' = sessions
            /\ userSessions' = userSessions
            /\ chat' = chat
            /\ emitted' = {}]_vars

(* ------------------ send-chat-message (socket event) ------------------- *)
\* message bodies a client may send (empty, blank, text, padded text) and
\* the characters each consists of
Bodies == {"", " ", "h", " h "}
Chars(b) ==
  CASE b = "" -> <<>>
    [] b = " " -> <<" ">>
    [] b = "h" -> <<"h">>
    [] b = " h " -> <<" ", "h", " ">>

\* String.prototype.trim
RECURSIVE TrimLeft(_)
TrimLeft(b) == IF b # <<>> /\ Head(b) = " " THEN TrimLeft(Tail(b)) ELSE b
RECURSIVE TrimRight(_)
TrimRight(b) ==
  IF b # <<>> /\ b[Len(b)] = " " THEN TrimRight(SubSeq(b, 1, Len(b) - 1)) ELSE b
TrimNothing(b) == b
Trim(b) == TrimRight(TrimLeft(b))

\* ChatMessageModel.create
Persist(store, doc) == Append(store, doc)

SendEvent(c, sid, body) == Step("send-chat-message", c, sid, body)

NeverRefused(c) == FALSE
\* !userSession || !socket.sessionId
NotInChat(c) == userSessions[c] = NoEntry \/ conn[c].sessionId = None

\* handleSendChatMessage up to the await of createChatMessage: without a
\* presence entry or session tag the sender gets chat-error; a body that is
\* empty after trimming is dropped with a log line only; otherwise
\* createChatMessage is called with the payload's session id and the
\* presence entry's user id, and stamps the document
SendChatMessage(c, sid, body) ==
  /\ Registered(c)
  /\ Allowed(SendEvent(c, sid, body))
  /\ HasFreeSlot
  /\ env' = Consume(SendEvent(c, sid, body))
  /\ IF NotInChat(c)
     THEN /\ tasks' = tasks
          /\ emitted' = ToSelf(c, "chat-error", sid, conn[c].userId, <<>>)
          /\ last' = Step("send_refused", c, sid, body)
     ELSE IF Trim(Chars(body)) = <<>>
     THEN /\ tasks' = tasks
          /\ emitted' = {}
          /\ last' = Step("send_ignored", c, sid, body)
     ELSE /\ tasks' = [tasks EXCEPT ![FreeSlot] =
                [IdleTask EXCEPT !.kind = "send", !.pc = "insert", !.c = c, !.sid = sid,
                                 !.uid = userSessions[c].userId, !.ts = now]]
          /\ emitted' = {}
          /\ last' = Step("send_accepted", c, sid, body)
  /\ UNCHANGED <<sessions, conn, userSessions, chat, now, egress>>

\* the insert reaches the collection, or fails: the catch block answers
\* chat-error
SendInsert(t) ==
  LET k == tasks[t] IN
  /\ k.kind = "send" /\ k.pc = "insert"
  /\ \E ok \in Outcomes :
       /\ env' = Charged(env, ok)
       /\ IF ok
          THEN /\ chat' = Persist(chat, ChatDoc(k.sid, k.uid, "text", k.ts))
               /\ tasks' = [tasks EXCEPT ![t].pc = "saved"]
               /\ emitted' = {}
               /\ last' = [Step("send_saved", k.c, k.sid, k.uid) EXCEPT !.n = k.ts]
          ELSE /\ chat' = chat
               /\ tasks' = Release(t)
               /\ emitted' = ToSelf(k.c, "chat-error", k.sid, k.uid, <<>>)
               /\ last' = [Step("send_failed", k.c, k.sid, k.uid) EXCEPT !.n = k.ts]
  /\ UNCHANGED <<sessions, conn, userSessions, now, egress>>

\* io.to(sessionId).emit('chat-message', chatMessage)
SendBroadcast(t) ==
  LET k == tasks[t] IN
  /\ k.kind = "send" /\ k.pc = "saved"
  /\ emitted' = ToRoom(k.sid, "chat-message", k.sid, k.uid)
  /\ tasks' = Release(t)
  /\ last' = [Step("send_broadcast", k.c, k.sid, k.uid) EXCEPT !.n = k.ts]
  /\ UNCHANGED <<sessions, conn, userSessions, chat, now, egress, env>>

SendStep(t) == SendInsert(t) \/ SendBroadcast(t)

\* the socket of user u after a successful join of session sid, and the
\* documents after the joins of the users in us
Joined(c, u, sid) == [Handshake(c, GoodToken(u)) EXCEPT !.sessionId = sid, !.rooms = {c, sid}]
RECURSIVE WithParticipants(_, _, _)
WithParticipants(db, sid, us) ==
  IF us = <<>> THEN db
  ELSE WithParticipants(AddParticipant(db, sid, Head(us)), sid, Tail(us))

(* ------ two present connections send to their session concurrently ----- *)
InitChatRace ==
  \E u1 \in Users, u2 \in Users, sid \in SessionIds :
    /\ u1 # u2
    /\ sessions \in {WithParticipants(db, sid, <<u1, u2>>) : db \in InitSessions}
    /\ env = ScriptEnv(<<{SendEvent("c1", sid, "h"), SendEvent("c2", sid, "h"), TickEvent}>>,
                       0, sessions)
    /\ conn = [c \in Conns |-> Joined(c, IF c = "c1" THEN u1 ELSE u2, sid)]
    /\ userSessions = [c \in Conns |->
                         [userId |-> IF c = "c1" THEN u1 ELSE u2, sessionId |-> sid]]
    /\ chat = <<>>
    /\ now = 0
    /\ tasks = [t \in TaskIds |-> IdleTask]
    /\ egress = <<>>
    /\ emitted = {}
    /\ last = NoStep

NextChatRace ==
  \/ \E c \in Conns, sid \in SessionIds, body \in Bodies : SendChatMessage(c, sid, body)
  \/ \E t \in TaskIds : SendStep(t)
  \/ Tick

SpecChatRace == InitChatRace /\ [][NextChatRace]_vars

\* C14: when a user message is broadcast, no message of the same session
\* with a later timestamp has been broadcast before it: every stored message
\* of the session with a later timestamp is still waiting for its broadcast.
C14_BroadcastInTimestampOrder ==
  last.op = "send_broadcast"
    => \A i \in DOMAIN chat :
         (chat[i].sessionId = last.sid /\ chat[i].type = "text" /\ chat[i].timestamp > last.n)
           => \E t \in TaskIds :
                /\ tasks[t].kind = "send" /\ tasks[t].pc = "saved"
                /\ ChatDoc(tasks[t].sid, tasks[t].uid, "text", tasks[t].ts) = chat[i]

(* ------ a connection sends to its session after its leave failed ------- *)
\* two users are present in a session; the first asks to leave (one storage
\* call may fail) and then sends a message
InitChatAfterLeave ==
  \E u1 \in Users, u2 \in Users, sid \in SessionIds :
    /\ u1 # u2
    /\ sessions \in {WithParticipants(db, sid, <<u1, u2>>) : db \in InitSessions}
    /\ env = ScriptEnv(<<{LeaveEvent("c1", sid, u1)}, {SendEvent("c1", sid, "h")}>>,
                       1, sessions)
    /\ conn = [c \in Conns |-> Joined(c, IF c = "c1" THEN u1 ELSE u2, sid)]
    /\ userSessions = [c \in Conns |->
                         [userId |-> IF c = "c1" THEN u1 ELSE u2, sessionId |-> sid]]
    /\ chat = <<>>
    /\ now = 0
    /\ tasks = [t \in TaskIds |-> IdleTask]
    /\ egress = <<>>
    /\ emitted = {}
    /\ last = NoStep

NextChatAfterLeave ==
  \/ \E c \in Conns, sid \in SessionIds, u \in Users : LeaveSession(c, sid, u)
  \/ \E t \in TaskIds : LeaveStep(t)
  \/ \E c \in Conns, sid \in SessionIds, body \in Bodies : SendChatMessage(c, sid, body)
  \/ \E t \in TaskIds : SendStep(t)

SpecChatAfterLeave == InitChatAfterLeave /\ [][NextChatAfterLeave]_vars

\* C15: when an accepted user message is broadcast it is in the message
\* store, and the broadcast reaches every open connection that has a
\* presence entry for the message's session at that moment, the sender's
\* connection among them.
C15_PersistThenBroadcastToPresent ==
  last.op = "send_broadcast"
    => /\ \E i \in DOMAIN chat : chat[i] = ChatDoc(last.sid, last.uid, "text", last.n)
       /\ \A e \in emitted :
            \A c \in Conns :
              (conn[c].st = "open" /\ userSessions[c].sessionId = last.sid)
                => c \in e.rcpt
       /\ emitted # {}

(* --------- any messages from a present and an absent connection -------- *)
\* the first socket is present in session s1, the second is connected but
\* has joined nothing; both send any bodies naming any session
InitChat ==
  \E u1 \in Users, u2 \in Users :
    /\ u1 # u2
    /\ sessions \in {WithParticipants(db, "s1", <<u1>>) : db \in InitSessions}
    /\ env = FreeEnv(sessions)
    /\ conn = [c \in Conns |->
                 IF c = "c1" THEN Joined(c, u1, "s1") ELSE Handshake(c, GoodToken(u2))]
    /\ userSessions = [c \in Conns |->
                         IF c = "c1" THEN [userId |-> u1, sessionId |-> "s1"] ELSE NoEntry]
    /\ chat = <<>>
    /\ now = 0
    /\ tasks = [t \in TaskIds |-> IdleTask]
    /\ egress = <<>>
    /\ emitted = {}
    /\ last = NoStep

NextChat ==
  \/ \E c \in Conns, sid \in SessionIds, body \in Bodies : SendChatMessage(c, sid, body)
  \/ \E t \in TaskIds : SendStep(t)
  \/ Tick

SpecChat == InitChat /\ [][NextChat]_vars

\* C16 as stated: a send-chat-message whose body is empty after trimming is
\* answered with an error event delivered to the sending connection.
C16_EmptyMessageReported ==
  (/\ last.op \in {"send_accepted", "send_ignored", "send_refused"}
   /\ SeqToSet(Chars(last.uid)) \subseteq {" "})
    => \E e \in emitted : e.ev = "chat-error" /\ last.c \in e.rcpt

\* C16, amended: a send-chat-message from a connection with a presence entry
\* whose body is empty or consists of blanks only is dropped without any
\* event: nothing is sent to the sender or to the room, no handler is left
\* waiting to persist or broadcast, and the message store, the participant
\* lists and the presence map are unchanged.
C16_BlankIgnored ==
  [][(/\ last'.op \in {"send_accepted", "send_ignored"}
      /\ SeqToSet(Chars(last'.uid)) \subseteq {" "})
       => /\ last'.op = "send_ignored"
          /\ emitted' = {}
          /\ tasks' = tasks
          /\ chat' = chat
          /\ sessions' = sessions
          /\ userSessions' = userSessions]_vars

C16_Witness ==
  /\ last.op = "send_ignored" /\ last.uid = " "
  /\ userSessions[last.c] # NoEntry
  /\ emitted = {} /\ chat = <<>> /\ AllIdle

(* ----------------- WebRTC signaling (socket events) -------------------- *)
SignalKinds == {"webrtc-offer", "webrtc-answer", "webrtc-ice-candidate"}
\* the offer / answer / candidate object, opaque to the server
Payloads == {1, 2}
\* what a client may put in the 'to' field: a user id (what the frontend
\* sends), a socket id or a session id
Targets == Users \cup Conns \cup SessionIds

ForwardToSession(c, to, ev, uid, payload) ==
  {Ev(to, ev, None, uid, <<payload>>, RoomMembers(conn[c].sessionId) \ {c})}
\* socket.to(data.to).emit(ev, { payload, from: socket.userId, to }): the
\* sockets in the room named data.to, without the emitting socket
Forward(c, to, ev, uid, payload) ==
  {Ev(to, ev, None, uid, <<payload>>, RoomMembers(to) \ {c})}

\* the request as the client sent it; its 'from' field is kept in the sid
\* slot of the step record
SignalEvent(c, kind, from, to, payload) == [Step(kind, c, from, to) EXCEPT !.n = payload]

FromFieldOfRequest(c, from) == from
\* from: socket.userId
FromField(c, from) == conn[c].userId

\* handleWebRTCOffer / handleWebRTCAnswer / handleWebRTCIceCandidate
Signal(c, kind, from, to, payload) ==
  /\ Registered(c)
  /\ Allowed(SignalEvent(c, kind, from, to, payload))
  /\ env' = Consume(SignalEvent(c, kind, from, to, payload))
  /\ emitted' = Forward(c, to, kind, FromField(c, from), payload)
  /\ last' = SignalEvent(c, kind, from, to, payload)
  /\ UNCHANGED <<sessions, conn, userSessions, chat, now, tasks, egress>>

\* the first socket is present in a session; the second is present in any
\* session, under any identity, or connected without having joined
InitSignal ==
  \E u1 \in Users, u2 \in Users, sid1 \in SessionIds, sid2 \in SessionIds \cup {None} :
    /\ sessions \in {IF sid2 = None THEN WithParticipants(db, sid1, <<u1>>)
                     ELSE WithParticipants(WithParticipants(db, sid1, <<u1>>), sid2, <<u2>>)
                     : db \in InitSessions}
    /\ env = FreeEnv(sessions)
    /\ conn = [c \in Conns |->
                 IF c = "c1" THEN Joined(c, u1, sid1)
                 ELSE IF sid2 = None THEN Handshake(c, GoodToken(u2))
                 ELSE Joined(c, u2, sid2)]
    /\ userSessions = [c \in Conns |->
                         IF c = "c1" THEN [userId |-> u1, sessionId |-> sid1]
                         ELSE IF sid2 = None THEN NoEntry
                         ELSE [userId |-> u2, sessionId |-> sid2]]
    /\ chat = <<>>
    /\ now = 0
    /\ tasks = [t \in TaskIds |-> IdleTask]
    /\ egress = <<>>
    /\ emitted = {}
    /\ last = NoStep

NextSignal ==
  \/ \E c \in Conns, kind \in SignalKinds, to \in Targets, payload \in Payloads :
       Signal(c, kind, conn[c].userId, to, payload)
  \/ \E c \in Conns : Disconnect(c)
  \/ \E t \in TaskIds : DisconnectStep(t)

SpecSignal == InitSignal /\ [][NextSignal]_vars

\* the live connections whose presence entry is (identity u, session sid)
LivePresent(u, sid) ==
  {c \in Conns : conn[c].st = "open" /\ userSessions[c] = [userId |-> u, sessionId |-> sid]}

\* C18: a signaling message addressed to identity T by a connection present
\* in session S is delivered, with its payload, to every other live
\* connection whose presence entry is (T, S).
C18_SignalReachesTarget ==
  (/\ last.op \in SignalKinds /\ last.uid \in Users
   /\ userSessions[last.c] # NoEntry)
    => /\ emitted # {}
       /\ \A e \in emitted :
            /\ e.body = <<last.n>>
            /\ LivePresent(last.uid, userSessions[last.c].sessionId) \ {last.c}
                 \subseteq e.rcpt

\* C19: a signaling message whose target identity matches no live
\* connection present in the sender's session is delivered to no connection,
\* the sender's included, and leaves the presence map, the participant
\* lists and the message store unchanged.
C19_UnmatchedSignalDropped ==
  [][(/\ last'.op \in SignalKinds /\ last'.uid \in Users
      /\ LivePresent(last'.uid, userSessions[last'.c].sessionId) = {})
       => /\ \A e \in emitted' : e.rcpt = {}
          /\ userSessions' = userSessions
          /\ sessions' = sessions
          /\ chat' = chat]_vars

\* the sender shares its session's room with another live connection, and
\* the message names an identity nobody in the session has
C19_Witness ==
  /\ last.op \in SignalKinds /\ last.uid \in Users
  /\ userSessions[last.c] # NoEntry
  /\ LivePresent(last.uid, userSessions[last.c].sessionId) = {}
  /\ RoomMembers(userSessions[last.c].sessionId) \ {last.c} # {}
  /\ \A e \in emitted : e.rcpt = {}
  /\ emitted # {}

(* ------------- the session page: load, then join the call -------------- *)
LoadEvent(u, sid) == Step("load-session", u, sid, u)

\* VideoSession loadSession: the page of user u fetches the session and
\* keeps what it got (setSession)
LoadSession(u, sid) ==
  /\ SessionExists(sid)
  /\ Allowed(LoadEvent(u, sid))
  /\ HasFreeSlot
  /\ env' = Consume(LoadEvent(u, sid))
  /\ tasks' = [tasks EXCEPT ![FreeSlot] =
        [IdleTask EXCEPT !.kind = "page", !.pc = "loaded", !.c = Http, !.sid = sid,
                         !.uid = u, !.snap = <<sessions[sid].status>>]]
  /\ emitted' = Reply("200", sid, sessions[sid].status)
  /\ last' = Step("page_loaded", Http, sid, u)
  /\ UNCHANGED <<sessions, conn, userSessions, chat, now, egress>>

\* handleJoinCall after the media join: an educator whose page holds status
\* scheduled goes on to ask for status active; anybody else is done
HandleJoinCall(t) ==
  LET k == tasks[t] IN
  /\ k.kind = "page" /\ k.pc = "loaded"
  /\ IF RoleOf(k.uid) = "educator" /\ k.snap = <<"scheduled">>
     THEN /\ tasks' = [tasks EXCEPT ![t].pc = "patch"]
          /\ last' = Step("joincall_media", Http, k.sid, k.uid)
     ELSE /\ tasks' = Release(t)
          /\ last' = Step("joincall_done", Http, k.sid, k.uid)
  /\ emitted' = {}
  /\ UNCHANGED <<sessions, conn, userSessions, chat, now, egress, env>>

\* the status request of handleJoinCall as the server treats it: the owner
\* check, then the update, which may fail; any error lands in the page's
\* catch block
JoinCallPatch(t) ==
  LET k == tasks[t] IN
  /\ k.kind = "page" /\ k.pc = "patch"
  /\ tasks' = Release(t)
  /\ IF ~MayUpdate(RoleOf(k.uid), sessions[k.sid].educator_id, k.uid)
     THEN /\ emitted' = Reply("403", k.sid, "NotAuthorized")
          /\ last' = Step("joincall_failed", Http, k.sid, k.uid)
          /\ UNCHANGED <<sessions, env>>
     ELSE \E ok \in Outcomes :
            /\ env' = Charged(env, ok)
            /\ IF ok
               THEN /\ sessions' = [sessions EXCEPT ![k.sid].status = NextStatus(@, "active")]
                    /\ emitted' = Reply("200", k.sid, "active")
                    /\ last' = Step("joincall_done", Http, k.sid, k.uid)
               ELSE /\ sessions' = sessions
                    /\ emitted' = Reply("error", k.sid, "ExternalServiceError")
                    /\ last' = Step("joincall_failed", Http, k.sid, k.uid)
  /\ UNCHANGED <<conn, userSessions, chat, now, egress>>

\* one user has a socket open; pages are opened and joined by any user,
\* sockets join, and status requests arrive
InitJoinCall ==
  \E u \in Users :
    /\ sessions \in InitSessions
    /\ env = FreeEnv(sessions)
    /\ conn = [c \in Conns |-> IF c = "c1" THEN Handshake(c, GoodToken(u)) ELSE NewSocket]
    /\ userSessions = [c \in Conns |-> NoEntry]
    /\ chat = <<>>
    /\ now = 0
    /\ tasks = [t \in TaskIds |-> IdleTask]
    /\ egress = <<>>
    /\ emitted = {}
    /\ last = NoStep

NextJoinCall ==
  \/ \E sid \in SessionIds : JoinSession("c1", sid, conn["c1"].userId)
  \/ \E t \in TaskIds : JoinStep(t)
  \/ \E u \in Users, sid \in SessionIds : LoadSession(u, sid)
  \/ \E t \in TaskIds : HandleJoinCall(t)
  \/ \E t \in TaskIds : JoinCallPatch(t)
  \/ \E u \in Users, sid \in SessionIds, st \in Statuses : UpdateSessionStatus(u, sid, st)

SpecJoinCall == InitJoinCall /\ [][NextJoinCall]_vars

\* C20: when a join by the host of a session completes, over the socket or
\* from the session page, and the session was scheduled, the session is
\* active afterwards.
C20_HostJoinActivates ==
  [][(/\ last'.op \in {"join_done", "joincall_done"}
      /\ last'.uid = sessions[last'.sid].educator_id
      /\ sessions[last'.sid].status = "scheduled")
       => sessions'[last'.sid].status = "active"]_vars

(* ====================== status of a session ============================ *)
\* C21: no step moves a session's status backwards: an active session never
\* becomes scheduled again (nor does an ended one become scheduled or
\* active), whatever status updates, joins, leaves and disconnects occur.
C21_StatusMonotonic ==
  [][\A s \in SessionIds :
       /\ sessions[s].status = "active" => sessions'[s].status # "scheduled"
       /\ sessions[s].status = "ended" => sessions'[s].status = "ended"]_vars

\* status requests by any user for any session, while a connection is
\* present in session s1
InitStatus ==
  \E u \in Users :
    /\ sessions \in {WithParticipants(db, "s1", <<u>>) : db \in InitSessions}
    /\ env = FreeEnv(sessions)
    /\ conn = [c \in Conns |-> IF c = "c1" THEN Joined(c, u, "s1") ELSE NewSocket]
    /\ userSessions = [c \in Conns |->
                         IF c = "c1" THEN [userId |-> u, sessionId |-> "s1"] ELSE NoEntry]
    /\ chat = <<>>
    /\ now = 0
    /\ tasks = [t \in TaskIds |-> IdleTask]
    /\ egress = <<>>
    /\ emitted = {}
    /\ last = NoStep

NextStatusRequests ==
  \E u \in Users, sid \in RequestIds, st \in Statuses : UpdateSessionStatus(u, sid, st)

SpecStatus == InitStatus /\ [][NextStatusRequests]_vars

StatusReplyOps == {"status_updated", "status_denied", "status_failed"}

\* C22: a status request by the owning educator that names the status the
\* session already has is not refused; unless the storage call itself fails
\* it is answered 200 with that status, and in either case the session
\* documents (status and participants) are as before.
C22_SameStatusIsNoOp ==
  [][(/\ last'.op \in StatusReplyOps
      /\ SessionExists(last'.sid)
      /\ MayUpdate(RoleOf(last'.c), sessions[last'.sid].educator_id, last'.c)
      /\ last'.uid = sessions[last'.sid].status)
       => /\ last'.op # "status_denied"
          /\ sessions' = sessions
          /\ \/ last'.op = "status_updated" /\ emitted' = Reply("200", last'.sid, last'.uid)
             \/ /\ last'.op = "status_failed"
                /\ emitted' = Reply("error", last'.sid, "ExternalServiceError")]_vars

\* the first request of a run asked for scheduled on a scheduled session
\* that has a participant, and was answered 200
C22_Witness ==
  /\ last.op = "status_updated" /\ last.uid = "scheduled"
  /\ env.left = MaxEvents - 1
  /\ sessions = env.base
  /\ sessions[last.sid].participants # <<>>
  /\ emitted = Reply("200", last.sid, "scheduled")

\* C23: a successful status update of a session is sent as an event to
\* every open connection that has a presence entry for that session.
C23_TransitionBroadcast ==
  last.op = "status_updated"
    => \E e \in emitted :
         \A c \in Conns :
           (conn[c].st = "open" /\ userSessions[c].sessionId = last.sid) => c \in e.rcpt

\* C24: a status request for an existing session by a caller who is not its
\* owning educator is answered 403 (not authorized) and changes no session
\* document.
C24_NonOwnerRefused ==
  [][(/\ last'.op \in StatusReplyOps
      /\ SessionExists(last'.sid)
      /\ ~(RoleOf(last'.c) = "educator" /\ sessions[last'.sid].educator_id = last'.c))
       => /\ last'.op = "status_denied"
          /\ emitted' = Reply("403", last'.sid, "NotAuthorized")
          /\ sessions' = sessions]_vars

\* an educator asked for another status of a session another educator owns
C24_Witness ==
  /\ last.op = "status_denied"
  /\ RoleOf(last.c) = "educator"
  /\ sessions[last.sid].educator_id # last.c
  /\ last.uid # sessions[last.sid].status
  /\ emitted = Reply("403", last.sid, "NotAuthorized")

(* ------------- recording requests while a job may be running ----------- *)
InitRestart ==
  /\ sessions \in InitSessions
  /\ env = FreeEnv(sessions)
  /\ conn = [c \in Conns |-> NewSocket]
  /\ userSessions = [c \in Conns |-> NoEntry]
  /\ chat = <<>>
  /\ now = 0
  /\ tasks = [t \in TaskIds |-> IdleTask]
  /\ egress \in {<<>>} \cup {<<[room |-> sid, active |-> TRUE]>> : sid \in SessionIds}
  /\ emitted = {}
  /\ last = NoStep

SpecRestart == InitRestart /\ [][NextRecording]_vars

\* C25: when the media service answers a start command with 'already
\* exists', the start-recording request is answered with success.
C25_AlreadyExistsIsSuccess ==
  (last.op \in StartOps /\ last.uid = AlreadyExists)
    => \E e \in emitted : e.ev = "200"

(* ------------- a connection joins a session and then drops ------------- *)
\* the socket of user u1 joins, naming identity v in the request, while the
\* socket of a third user u2 joins under its own identity; when both joins have
\* returned the first socket drops.  No storage call fails.
InitDrop ==
  \E u1 \in Users, v \in Users, u2 \in Users, sid \in SessionIds :
    /\ u2 \notin {u1, v}
    /\ InitScript(u1, u2, <<{JoinEvent("c1", sid, v), JoinEvent("c2", sid, u2)},
                            {DisconnectEvent("c1")}>>)

NextDrop ==
  \/ \E c \in Conns, sid \in SessionIds, u \in Users : JoinSession(c, sid, u)
  \/ \E t \in TaskIds : JoinStep(t)
  \/ \E c \in Conns : Disconnect(c)
  \/ \E t \in TaskIds : DisconnectStep(t)

\* every request that arrived is handled and every pending storage call
\* returns
SpecDrop == InitDrop /\ [][NextDrop]_vars /\ WF_vars(NextDrop)

\* the departure of socket c, announced to every open connection that has a
\* presence entry for session sid
Announced(c, sid) ==
  \E e \in emitted :
    /\ e.ev = "participant-left"
    /\ \A d \in Conns \ {c} :
         (conn[d].st = "open" /\ userSessions[d].sessionId = sid) => d \in e.rcpt

\* C26: when a connection with presence entry (u, sid) drops, eventually
\* its presence entry is gone, u is not in the participant list of sid, and
\* the departure has been announced to the connections present in sid.
C26_DropCleansUp ==
  \A c \in Conns, u \in Users, sid \in SessionIds :
    (/\ last.op = "disconnect_start" /\ last.c = c
     /\ userSessions[c] = [userId |-> u, sessionId |-> sid])
      ~> (/\ userSessions[c] = NoEntry
          /\ u \notin SeqToSet(sessions[sid].participants)
          /\ Announced(c, sid))

(* ---- a present connection leaves or drops; one storage call may fail -- *)
InitCleanup ==
  \E u1 \in Users, u2 \in Users, sid \in SessionIds :
    \E away \in {LeaveEvent("c1", sid, u1), DisconnectEvent("c1")} :
      /\ u1 # u2
      /\ sessions \in {WithParticipants(db, sid, <<u1, u2>>) : db \in InitSessions}
      /\ env = ScriptEnv(<<{away}>>, 1, sessions)
      /\ conn = [c \in Conns |-> Joined(c, IF c = "c1" THEN u1 ELSE u2, sid)]
      /\ userSessions = [c \in Conns |->
                           [userId |-> IF c = "c1" THEN u1 ELSE u2, sessionId |-> sid]]
      /\ chat = <<>>
      /\ now = 0
      /\ tasks = [t \in TaskIds |-> IdleTask]
      /\ egress = <<>>
      /\ emitted = {}
      /\ last = NoStep

NextCleanup ==
  \/ \E c \in Conns, sid \in SessionIds, u \in Users : LeaveSession(c, sid, u)
  \/ \E t \in TaskIds : LeaveStep(t)
  \/ \E c \in Conns : Disconnect(c)
  \/ \E t \in TaskIds : DisconnectStep(t)

SpecCleanup == InitCleanup /\ [][NextCleanup]_vars

CleanupReturnOps == {"leave_failed", "leave_done", "disconnect_failed", "disconnect_done"}

\* C27: when the leave or disconnect handler of a present connection has
\* returned, with or without a failed storage call on its way, the presence
\* entry of the connection is gone and participant-left has been sent to
\* the other connections of the session.
C27_CleanupSurvivesFailure ==
  last.op \in CleanupReturnOps
    => /\ userSessions[last.c] = NoEntry
       /\ \E e \in emitted :
            /\ e.ev = "participant-left"
            /\ RoomMembers(last.sid) \ {last.c} \subseteq e.rcpt

(* ---------------------- HTTP: purge of a session's chat ---------------- *)
PurgeEvent(u, sid) == Step("purge-request", u, sid, None)

\* ChatMessageModel.deleteMany({ sessionId })
DeleteMany(store, sid) == SelectSeq(store, LAMBDA m : m.sessionId # sid)

\* ChatMessageController.deleteChatMessagesBySession, behind AuthMiddleware
\* only: the caller's role and the session's owner are not looked at
DeleteChatMessagesBySession(u, sid) ==
  /\ Allowed(PurgeEvent(u, sid))
  /\ \E ok \in OutcomesIn(Consume(PurgeEvent(u, sid))) :
       /\ env' = Charged(Consume(PurgeEvent(u, sid)), ok)
       /\ IF ok
          THEN /\ chat' = DeleteMany(chat, sid)
               /\ emitted' = Reply("200", sid, "deleted")
               /\ last' = Step("purge_done", u, sid, None)
          ELSE /\ chat' = chat
               /\ emitted' = Reply("error", sid, "ExternalServiceError")
               /\ last' = Step("purge_failed", u, sid, None)
  /\ UNCHANGED <<sessions, conn, userSessions, now, tasks, egress>>

\* up to two stored messages, purge requests by any user
InitPurge ==
  /\ sessions = [s \in SessionIds |-> NewSession(IF s = "s1" THEN "e1" ELSE "e2", <<>>)]
  /\ env = FreeEnv(sessions)
  /\ chat \in {store \in Stores : Len(store) <= 2}
  /\ now = MaxTs
  /\ conn = [c \in Conns |-> NewSocket]
  /\ userSessions = [c \in Conns |-> NoEntry]
  /\ tasks = [t \in TaskIds |-> IdleTask]
  /\ egress = <<>>
  /\ emitted = {}
  /\ last = NoStep

NextPurge == \E u \in Users, sid \in SessionIds : DeleteChatMessagesBySession(u, sid)

SpecPurge == InitPurge /\ [][NextPurge]_vars

\* C28: a purge request for a session by a caller who is not the session's
\* host deletes no message.
C28_PurgeByHostOnly ==
  [][(/\ last'.op \in {"purge_done", "purge_failed"}
      /\ last'.c # sessions[last'.sid].educator_id)
       => chat' = chat]_vars

(* ------- joins, then a leave or a drop, with no storage failure -------- *)
\* the socket of user u1 joins naming identity v, the socket of a third
\* user u2 joins under its own identity; when both joins have returned
\* the first socket leaves, naming any session, or drops
InitAnnounce ==
  \E u1 \in Users, v \in Users, u2 \in Users, sid \in SessionIds :
    \E away \in {LeaveEvent("c1", s, v) : s \in SessionIds} \cup {DisconnectEvent("c1")} :
      /\ u2 \notin {u1, v}
      /\ InitScript(u1, u2, <<{JoinEvent("c1", sid, v), JoinEvent("c2", sid, u2)}, {away}>>)

NextAnnounce ==
  \/ \E c \in Conns, sid \in SessionIds, u \in Users : JoinSession(c, sid, u)
  \/ \E t \in TaskIds : JoinStep(t)
  \/ \E c \in Conns, sid \in SessionIds, u \in Users : LeaveSession(c, sid, u)
  \/ \E t \in TaskIds : LeaveStep(t)
  \/ \E c \in Conns : Disconnect(c)
  \/ \E t \in TaskIds : DisconnectStep(t)

SpecAnnounce == InitAnnounce /\ [][NextAnnounce]_vars

\* the stored messages of the reserved sender and kind system
SystemMessages(sid) ==
  {i \in DOMAIN chat :
     chat[i].sessionId = sid /\ chat[i].userId = SystemUser /\ chat[i].type = "system"}
\* a chat-message event of the reserved sender for session sid, delivered
\* to every open connection with a presence entry for sid outside except
SystemMessageSent(sid, except) ==
  \E e \in emitted :
    /\ e.ev = "chat-message" /\ e.uid = SystemUser /\ e.sid = sid
    /\ \A d \in Conns \ except :
         (conn[d].st = "open" /\ userSessions[d].sessionId = sid) => d \in e.rcpt

C30_AuthenticatedIdentityOnly ==
  /\ \A c \in Conns :
       userSessions[c] # NoEntry => userSessions[c].userId = conn[c].userId
  /\ last.op \in {"join_add", "leave_pull", "disconnect_pull"}
       => last.uid = conn[last.c].userId

(* ------ a connection joins and drops while its join is under way ------- *)
\* the socket of user u emits join-session under its own identity and
\* closes; the close may arrive at any await of the join handler.  No
\* storage call fails.
InitJoinDrop ==
  \E u \in Users, sid \in SessionIds :
    InitScript(u, None, <<{JoinEvent("c1", sid, u), DisconnectEvent("c1")}>>)

NextJoinDrop ==
  \/ \E c \in Conns, sid \in SessionIds, u \in Users : JoinSession(c, sid, u)
  \/ \E t \in TaskIds : JoinStep(t)
  \/ \E c \in Conns : Disconnect(c)
  \/ \E t \in TaskIds : DisconnectStep(t)

SpecJoinDrop == InitJoinDrop /\ [][NextJoinDrop]_vars

\* C31: the handlers of one connection run one at a time in arrival order:
\* the disconnect handler of a connection does not start while a join
\* handler of that connection is suspended at a storage call, and once a
\* join followed by a disconnect have both returned, the connection has no
\* presence entry and its identity is in no participant list it joined.
C31_HandlersSerialized ==
  /\ last.op = "disconnect_start"
       => \A t \in TaskIds : ~(tasks[t].kind = "join" /\ tasks[t].c = last.c)
  /\ (ScriptDone /\ AllIdle)
       => \A c \in Conns :
            conn[c].st = "closed"
              => /\ userSessions[c] = NoEntry
                 /\ \A s \in SessionIds :
                      conn[c].userId \notin SeqToSet(sessions[s].participants)
                        \/ conn[c].userId \in SeqToSet(env.base[s].participants)

(* ------ a connection joins while another leaves the same session ------- *)
\* the second socket is present in the session as u2, which may be the
\* user of the first socket on another device; the first socket joins
\* under its own identity while the second leaves.  No storage call fails.
InitJoinDuringLeave ==
  \E u1 \in Users, u2 \in Users, sid \in SessionIds :
    /\ sessions \in {WithParticipants(db, sid, <<u2>>) : db \in InitSessions}
    /\ env = ScriptEnv(<<{JoinEvent("c1", sid, u1), LeaveEvent("c2", sid, u2)}>>, 0, sessions)
    /\ conn = [c \in Conns |->
                 IF c = "c1" THEN Handshake(c, GoodToken(u1)) ELSE Joined(c, u2, sid)]
    /\ userSessions = [c \in Conns |->
                         IF c = "c1" THEN NoEntry ELSE [userId |-> u2, sessionId |-> sid]]
    /\ chat = <<>>
    /\ now = 0
    /\ tasks = [t \in TaskIds |-> IdleTask]
    /\ egress = <<>>
    /\ emitted = {}
    /\ last = NoStep

NextJoinDuringLeave ==
  \/ \E c \in Conns, sid \in SessionIds, u \in Users : JoinSession(c, sid, u)
  \/ \E t \in TaskIds : JoinStep(t)
  \/ \E c \in Conns, sid \in SessionIds, u \in Users : LeaveSession(c, sid, u)
  \/ \E t \in TaskIds : LeaveStep(t)

SpecJoinDuringLeave == InitJoinDuringLeave /\ [][NextJoinDuringLeave]_vars

\* C32: the participant list a successful join returns to its connection is
\* the session's participant list as read at one instant after the join's
\* own add, and it contains the joining identity, however the join
\* interleaves with a leave of the session by another connection.
C32_JoinSnapshot ==
  /\ last.op = "join_parts"
       => \E t \in TaskIds :
            /\ tasks[t].kind = "join" /\ tasks[t].c = last.c
            /\ tasks[t].snap = sessions[last.sid].participants
  /\ last.op = "join_done"
       => \A e \in emitted :
            e.ev = "session-joined" /\ e.rcpt = {last.c} /\ last.uid \in SeqToSet(e.body)

(* ------------- properties of messages naming any session --------------- *)
\* C33: a chat message sent by a connection whose presence entry names
\* session S is stored under S and broadcast to the room of S, and under or
\* to no other session, whatever session id the request carries.
C33_MessageStaysInSession ==
  /\ last.op \in {"send_saved", "send_broadcast"}
       => last.sid = userSessions[last.c].sessionId
  /\ \A i \in DOMAIN chat :
       chat[i].type = "text"
         => \E c \in Conns :
              userSessions[c] = [userId |-> chat[i].userId, sessionId |-> chat[i].sessionId]
  /\ last.op = "send_broadcast"
       => \A e \in emitted :
            e.ev = "chat-message" => e.to = userSessions[last.c].sessionId

(* ----------------------- join-chat (socket event) ---------------------- *)
JoinChatEvent(c, sid, uid) == Step("join-chat", c, sid, uid)
\* the number of messages handleJoinChat asks for
ChatHistoryLimit == 50

\* handleJoinChat up to the return of findSessionById: a missing document or
\* a failed query is answered with session-error and nothing else happens
JoinChat(c, sid, uid) ==
  /\ Registered(c)
  /\ Allowed(JoinChatEvent(c, sid, uid))
  /\ HasFreeSlot
  /\ \E ok \in OutcomesIn(Consume(JoinChatEvent(c, sid, uid))) :
       /\ env' = Charged(Consume(JoinChatEvent(c, sid, uid)), ok)
       /\ IF SessionExists(sid) /\ ok
          THEN /\ tasks' = [tasks EXCEPT ![FreeSlot] =
                    [IdleTask EXCEPT !.kind = "joinchat", !.pc = "found", !.c = c,
                                     !.sid = sid, !.uid = uid]]
               /\ emitted' = {}
               /\ last' = Step("joinchat_found", c, sid, uid)
          ELSE /\ tasks' = tasks
               /\ emitted' = ToSelf(c, "session-error", sid, uid, <<>>)
               /\ last' = Step("joinchat_failed", c, sid, uid)
  /\ UNCHANGED <<sessions, conn, userSessions, chat, now, egress>>

\* socket.sessionId = sessionId; socket.join(sessionId);
\* userSessions.set(socket.id, ...); getRecentChatMessages is issued
JoinChatEnter(t) ==
  LET k == tasks[t] IN
  /\ k.kind = "joinchat" /\ k.pc = "found"
  /\ conn' = [conn EXCEPT ![k.c].sessionId = k.sid,
                          ![k.c].rooms = IF conn[k.c].st = "open" THEN @ \cup {k.sid} ELSE @]
  /\ userSessions' = [userSessions EXCEPT ![k.c] = [userId |-> k.uid, sessionId |-> k.sid]]
  /\ tasks' = [tasks EXCEPT ![t].pc = "history"]
  /\ emitted' = {}
  /\ last' = Step("joinchat_enter", k.c, k.sid, k.uid)
  /\ UNCHANGED <<sessions, chat, now, egress, env>>

\* the history query reads the collection, or fails (inner catch: logged
\* only, the handler returns)
JoinChatHistory(t) ==
  LET k == tasks[t] IN
  /\ k.kind = "joinchat" /\ k.pc = "history"
  /\ \E ok \in Outcomes :
       /\ env' = Charged(env, ok)
       /\ IF ok
          THEN /\ \E r \in GetRecentChatMessages(chat, k.sid, ChatHistoryLimit) :
                    tasks' = [tasks EXCEPT ![t].pc = "history_done", ![t].snap = r]
               /\ last' = Step("joinchat_history", k.c, k.sid, k.uid)
          ELSE /\ tasks' = Release(t)
               /\ last' = Step("joinchat_nohistory", k.c, k.sid, k.uid)
  /\ emitted' = {}
  /\ UNCHANGED <<sessions, conn, userSessions, chat, now, egress>>

\* socket.emit('chat-history', chatHistory)
JoinChatDone(t) ==
  LET k == tasks[t] IN
  /\ k.kind = "joinchat" /\ k.pc = "history_done"
  /\ emitted' = ToSelf(k.c, "chat-history", k.sid, k.uid, k.snap)
  /\ tasks' = Release(t)
  /\ last' = Step("joinchat_done", k.c, k.sid, k.uid)
  /\ UNCHANGED <<sessions, conn, userSessions, chat, now, egress, env>>

JoinChatStep(t) == JoinChatEnter(t) \/ JoinChatHistory(t) \/ JoinChatDone(t)

(* --- a joined connection leaves, joins elsewhere, joins a chat or drops - *)
\* the socket of user u joins a session; when the join has returned it
\* leaves (naming any session), joins or joins the chat of any session, or
\* drops.  No storage call fails.
InitRooms ==
  \E u \in Users, sid \in SessionIds :
    \E then \in {LeaveEvent("c1", s, u) : s \in SessionIds}
                  \cup {JoinEvent("c1", s, u) : s \in SessionIds}
                  \cup {JoinChatEvent("c1", s, u) : s \in SessionIds}
                  \cup {DisconnectEvent("c1")} :
      InitScript(u, None, <<{JoinEvent("c1", sid, u)}, {then}>>)

NextRooms ==
  \/ \E c \in Conns, sid \in SessionIds, u \in Users : JoinSession(c, sid, u)
  \/ \E t \in TaskIds : JoinStep(t)
  \/ \E c \in Conns, sid \in SessionIds, u \in Users : LeaveSession(c, sid, u)
  \/ \E t \in TaskIds : LeaveStep(t)
  \/ \E c \in Conns, sid \in SessionIds, u \in Users : JoinChat(c, sid, u)
  \/ \E t \in TaskIds : JoinChatStep(t)
  \/ \E c \in Conns : Disconnect(c)
  \/ \E t \in TaskIds : DisconnectStep(t)

SpecRooms == InitRooms /\ [][NextRooms]_vars

\* C34: whenever no handler is mid-execution, a connection is in the
\* broadcast room of session S exactly when its presence entry names S:
\* after a leave naming any session, after a second join or join-chat
\* naming another session, and after a disconnect.
C34_RoomsMatchPresence ==
  AllIdle
    => \A c \in Conns, s \in SessionIds :
         s \in conn[c].rooms <=> userSessions[c].sessionId = s

(* ------------------- properties of forwarded signals ------------------- *)
\* C35: a signaling message sent by a connection present in session S is
\* delivered to no connection whose presence entry does not name S,
\* whatever its target field holds (a user, a socket or a session id).
C35_SignalStaysInSession ==
  (last.op \in SignalKinds /\ userSessions[last.c] # NoEntry)
    => \A e \in emitted :
         \A d \in e.rcpt :
           userSessions[d].sessionId = userSessions[last.c].sessionId

(* ------- a connection joins the chat while another one is sending ------ *)
\* the chat client's listeners: a chat-message is pushed onto its message
\* list; a chat-history replaces the list
AddMessage(list, m) == Append(list, m)
OnChatHistory(list, msgs) == msgs

\* the second socket is present in the session and sends a message while
\* the first socket joins the session's chat; the store may hold an earlier
\* message of the session.  No storage call fails.
InitLateJoin ==
  \E u1 \in Users, u2 \in Users, sid \in SessionIds :
    /\ u1 # u2
    /\ sessions \in {WithParticipants(db, sid, <<u2>>) : db \in InitSessions}
    /\ env = ScriptEnv(<<{JoinChatEvent("c1", sid, u1), SendEvent("c2", sid, "h"), TickEvent}>>,
                       0, sessions)
    /\ conn = [c \in Conns |->
                 IF c = "c1" THEN Handshake(c, GoodToken(u1)) ELSE Joined(c, u2, sid)]
    /\ userSessions = [c \in Conns |->
                         IF c = "c1" THEN NoEntry ELSE [userId |-> u2, sessionId |-> sid]]
    /\ chat \in {<<>>, <<SystemDoc(sid, 0)>>}
    /\ now = 0
    /\ tasks = [t \in TaskIds |-> IdleTask]
    /\ egress = <<>>
    /\ emitted = {}
    /\ last = NoStep

NextLateJoin ==
  \/ \E c \in Conns, sid \in SessionIds, u \in Users : JoinChat(c, sid, u)
  \/ \E t \in TaskIds : JoinChatStep(t)
  \/ \E c \in Conns, sid \in SessionIds, body \in Bodies : SendChatMessage(c, sid, body)
  \/ \E t \in TaskIds : SendStep(t)
  \/ Tick

SpecLateJoin == InitLateJoin /\ [][NextLateJoin]_vars

InitFailedJoin ==
  \E u \in Users, sid \in RequestIds :
    /\ sessions \in InitSessions
    /\ env = ScriptEnv(<<{JoinEvent("c1", sid, u)}>>, 1, sessions)
    /\ conn = [c \in Conns |-> IF c = "c1" THEN Handshake(c, GoodToken(u)) ELSE NewSocket]
    /\ userSessions = [c \in Conns |-> NoEntry]
    /\ chat = <<>>
    /\ now = 0
    /\ tasks = [t \in TaskIds |-> IdleTask]
    /\ egress = <<>>
    /\ emitted = {}
    /\ last = NoStep

NextFailedJoin ==
  \/ \E c \in Conns, sid \in RequestIds, u \in Users : JoinSession(c, sid, u)
  \/ \E t \in TaskIds : JoinStep(t)

SpecFailedJoin == InitFailedJoin /\ [][NextFailedJoin]_vars

\* C37: a join-session that ends in session-error, because the session
\* lookup, the participant add or the participant read failed, leaves no
\* trace: the connection has no presence entry, is not in the session's
\* room, carries no session tag, and the participant lists are as they were
\* before the join.
C37_FailedJoinLeavesNoTrace ==
  last.op = "join_failed"
    => /\ userSessions[last.c] = NoEntry
       /\ last.sid \notin conn[last.c].rooms
       /\ conn[last.c].sessionId = None
       /\ \A s \in SessionIds : sessions[s].participants = env.base[s].participants

(* ---------- properties of messages from absent connections ------------- *)
\* C38: a send-chat-message from a connection that holds no presence entry
\* (it never joined, or it has left) is answered with chat-error to that
\* connection only; nothing is stored, nothing is broadcast and no handler
\* is left waiting to store or broadcast.
C38_AbsentSenderRefused ==
  [][(/\ last'.op \in {"send_accepted", "send_ignored", "send_refused"}
      /\ userSessions[last'.c] = NoEntry)
       => /\ last'.op = "send_refused"
          /\ emitted' # {}
          /\ \A e \in emitted' : e.ev = "chat-error" /\ e.rcpt = {last'.c}
          /\ chat' = chat
          /\ tasks' = tasks
          /\ sessions' = sessions
          /\ userSessions' = userSessions]_vars

\* the connection's leave has returned and removed its presence entry; its
\* message was refused with chat-error and the store holds no user message
C38_Witness ==
  /\ last.op = "send_refused"
  /\ ScriptDone /\ AllIdle
  /\ userSessions[last.c] = NoEntry
  /\ \E e \in emitted : e.ev = "chat-error" /\ e.rcpt = {last.c}
  /\ \A i \in DOMAIN chat : chat[i].type = "system"
  /\ chat # <<>>

(* ------------- one signal whose 'from' field is arbitrary -------------- *)
\* both sockets are present in one session; the first sends one offer,
\* answer or candidate with any 'from', 'to' and payload
InitSignalFrom ==
  \E u1 \in Users, u2 \in Users, sid \in SessionIds :
    \E kind \in SignalKinds, from \in Users, to \in Targets, payload \in Payloads :
      /\ sessions \in {WithParticipants(db, sid, <<u1, u2>>) : db \in InitSessions}
      /\ env = ScriptEnv(<<{SignalEvent("c1", kind, from, to, payload)}>>, 0, sessions)
      /\ conn = [c \in Conns |-> Joined(c, IF c = "c1" THEN u1 ELSE u2, sid)]
      /\ userSessions = [c \in Conns |->
                           [userId |-> IF c = "c1" THEN u1 ELSE u2, sessionId |-> sid]]
      /\ chat = <<>>
      /\ now = 0
      /\ tasks = [t \in TaskIds |-> IdleTask]
      /\ egress = <<>>
      /\ emitted = {}
      /\ last = NoStep

NextSignalFrom ==
  \E c \in Conns, kind \in SignalKinds, from \in Users, to \in Targets, payload \in Payloads :
    Signal(c, kind, from, to, payload)

SpecSignalFrom == InitSignalFrom /\ [][NextSignalFrom]_vars

\* C39: every forwarded offer, answer and candidate carries as its 'from'
\* field the identity its sending connection authenticated with, whatever
\* 'from' value the request held, and carries the request's payload and
\* 'to' field as they were received.
C39_FromIsAuthenticated ==
  last.op \in SignalKinds
    => /\ emitted # {}
       /\ \A e \in emitted :
            /\ e.ev = last.op
            /\ e.uid = conn[last.c].token.id
            /\ e.body = <<last.n>>
            /\ e.to = last.uid

\* a request whose 'from' field named another user was delivered to another
\* connection under the sender's authenticated identity
C39_Witness ==
  /\ last.op \in SignalKinds
  /\ last.sid # conn[last.c].token.id
  /\ \E e \in emitted :
       /\ e.rcpt # {} /\ last.c \notin e.rcpt
       /\ e.uid = conn[last.c].token.id /\ e.body = <<last.n>> /\ e.to = last.uid
====
